---------------------------- MODULE Spec2Model ----------------------------
(***************************************************************************)
(* sammy_monitor: the probe scheduler (src/src/worker.rs), the metrics     *)
(* registry (src/src/metrics.rs) and the start-up order of main            *)
(* (src/src/main.rs).                                                      *)
(*                                                                         *)
(* Time is counted in milliseconds.  A value in seconds that the code      *)
(* computes as `ms as f64 / 1000.0` is kept as a fixed-point number of     *)
(* millionths of a second, so the histogram bounds 0.05 .. 30.0 are        *)
(* 50000 .. 30000000.                                                      *)
(*                                                                         *)
(* Two specifications share the variables:                                 *)
(*   Spec          the process main() starts: recorder, Worker::new, the   *)
(*                 scheduling loop and its record calls;                   *)
(*   RegistrySpec  a client of the public MetricsRegistry API (as the      *)
(*                 integration test is) together with the exposition       *)
(*                 reader.                                                 *)
(***************************************************************************)
EXTENDS Integers, Sequences, FiniteSets, TLC

VARIABLES
    registry,       \* MetricsRegistry: the six maps of handles
    recorder,       \* the installed Prometheus recorder: the series and their values
    call,           \* the MetricsRegistry call in progress and its position
    pre,            \* history: registry and recorder when the call in progress began
    completed,      \* history: per monitor id, the record call that completed last
                    \* ("dropped" when the id was not registered)
    rendered,       \* what the last handle.render() of the exposition reader returned
    clock,          \* Instant::now(), in ms since process start
    pc,             \* position of main / the worker
    cycle,          \* number of loop iterations started
    loop_start,     \* Worker::start: loop_start
    now,            \* Worker::check_due_monitors: now
    last_run_times, \* Worker.last_run_times
    monitors_to_check, \* check_due_monitors: the vector of due monitors
    idx,            \* position of the for loop over monitors_to_check
    result,         \* the MonitorResult of the probe that just returned
    cycle_log,      \* history: probes and record calls of the current cycle
    probed_at,      \* history: per monitor id, `now` of the cycle of its latest probe
    started_at,     \* history: per monitor id, the clock when the request of its latest probe was sent
    probed_before,  \* history: probed_at as it was when the current cycle began
    calls,          \* number of API calls the clients have made
    threads,        \* per thread, the record call it has in progress and its position
    recorded,       \* history: the record calls that returned, made for a target
                    \* that was registered when they began, and how many of each
    answered,       \* history: what the network answered to the latest probe
    overruns,       \* history: number of cycles whose runtime reached the cadence
    file,           \* the settings file at the path given to Settings::load
    loaded,         \* what Settings::load or Settings::from_str returned
    joined          \* main: the futures tokio::join! has polled, in order

vars == << registry, recorder, call, pre, completed, rendered, clock, pc, cycle,
           loop_start, now, last_run_times, monitors_to_check, idx, result,
           cycle_log, probed_at, started_at, probed_before, calls, threads, recorded, answered,
           overruns, file, loaded, joined >>

storeVars == << registry, recorder, call, pre, completed, threads, recorded >>
startVars == << file, loaded, joined >>
workerVars == << cycle, loop_start, now, last_run_times, monitors_to_check, idx,
                 result, cycle_log, probed_at, started_at, probed_before, answered, overruns >>

-----------------------------------------------------------------------------
(* Bounds of the model *)

MaxCycles == 3
MaxCalls == 3
MaxDriftCycles == 4
MaxFileMonitors == 2
MaxReaderCycles == 2
MaxLockCalls == 2
StartWallMs == 500

(* Program constants *)

Cadence == 60000
MinSleep == 100
SecondsPerMinute == 60

-----------------------------------------------------------------------------
(* Option<T>: None is the empty set, Some(x) the singleton *)

None == {}
Some(x) == {x}
IsSome(o) == o # {}
UnwrapOr(o, d) == IF o = {} THEN d ELSE CHOOSE x \in o : TRUE

EmptyMap == [x \in {} |-> 0]

(* HashMap::insert: the value under an existing key is replaced *)
Insert(m, k, v) == [x \in (DOMAIN m) \cup {k} |-> IF x = k THEN v ELSE m[x]]


-----------------------------------------------------------------------------
(* Settings: the monitors of the configuration, in file order *)

Monitor(id, name, url, interval, enabled) ==
    [id |-> id, name |-> name, url |-> url, interval |-> interval, enabled |-> enabled]

settings ==
    [monitors |-> << Monitor("m1", "1min interval", "https://example1.com", 1, TRUE),
                     Monitor("m2", "2min interval", "https://example2.com", 2, TRUE),
                     Monitor("m3", "Disabled", "https://disabled.com", 1, FALSE) >>]

MonitorIds == {settings.monitors[i].id : i \in 1..Len(settings.monitors)}
MonitorOf(id) == settings.monitors[CHOOSE i \in 1..Len(settings.monitors) :
                                       settings.monitors[i].id = id]

MonitorMetadata(name, url, interval) == [name |-> name, url |-> url, interval |-> interval]
MetadataOf(monitor) == MonitorMetadata(monitor.name, monitor.url, monitor.interval)
NoMetadata == MonitorMetadata("", "", 0)

-----------------------------------------------------------------------------
(* The recorder: series are identified by metric name and labels *)

Series(metric, id, meta, status, error_type, status_code) ==
    [metric |-> metric, monitor_id |-> id, monitor_name |-> meta.name,
     monitor_url |-> meta.url, interval_minutes |-> ToString(meta.interval),
     status |-> status, error_type |-> error_type, status_code |-> status_code]

(* The handle a metrics macro returns while no recorder is installed *)
NoopHandle ==
    [metric |-> "", monitor_id |-> "", monitor_name |-> "", monitor_url |-> "",
     interval_minutes |-> "", status |-> "", error_type |-> "", status_code |-> ""]

(* set_buckets_for_metric: the upper bounds 0.05 .. 30.0 s, in millionths of a second *)
Buckets == {50000, 100000, 200000, 500000, 1000000, 2000000, 5000000, 10000000,
            20000000, 30000000}

EmptyHistogram == [buckets |-> [b \in Buckets |-> 0], sum |-> 0, count |-> 0]

NoRecorder ==
    [installed |-> FALSE, counters |-> EmptyMap, gauges |-> EmptyMap,
     histograms |-> EmptyMap]

InstallRecorder(rec) == [rec EXCEPT !.installed = TRUE]

(* Mutant of RegisterSeries: registering again starts the series afresh *)
RegisterSeriesReset(rec, kind, key, init) ==
    IF ~rec.installed THEN rec ELSE [rec EXCEPT ![kind] = Insert(@, key, init)]

(* metrics::counter! / gauge! / histogram!: the series is created at its   *)
(* first use and found again afterwards; the handle refers to the series   *)
RegisterSeries(rec, kind, key, init) ==
    IF ~rec.installed \/ key \in DOMAIN rec[kind]
    THEN rec
    ELSE [rec EXCEPT ![kind] = Insert(@, key, init)]

HandleFor(rec, key) == IF rec.installed THEN key ELSE NoopHandle

(* Mutant of CounterIncrement: Counter::absolute in place of increment *)
CounterAbsolute(rec, handle, n) ==
    IF handle = NoopHandle THEN rec
    ELSE [rec EXCEPT !.counters[handle] = n]

CounterIncrement(rec, handle, n) ==
    IF handle = NoopHandle THEN rec
    ELSE [rec EXCEPT !.counters[handle] = @ + n]

(* Mutant of GaugeSet: Gauge::increment in place of set *)
GaugeIncrement(rec, handle, v) ==
    IF handle = NoopHandle THEN rec
    ELSE [rec EXCEPT !.gauges[handle] = @ + v]

GaugeSet(rec, handle, v) ==
    IF handle = NoopHandle THEN rec
    ELSE [rec EXCEPT !.gauges[handle] = v]

(* Mutant of Observe: only the first bucket that holds the value counts it *)
ObserveOwnBucket(h, v) ==
    [buckets |-> [b \in Buckets |->
                     IF v <= b /\ (\A c \in Buckets : c < b => c < v)
                     THEN h.buckets[b] + 1 ELSE h.buckets[b]],
     sum |-> h.sum + v,
     count |-> h.count + 1]

(* Mutant of Observe: a value on a bound falls outside its bucket *)
ObserveStrict(h, v) ==
    [buckets |-> [b \in Buckets |-> IF v < b THEN h.buckets[b] + 1 ELSE h.buckets[b]],
     sum |-> h.sum + v,
     count |-> h.count + 1]

Observe(h, v) ==
    [buckets |-> [b \in Buckets |-> IF v <= b THEN h.buckets[b] + 1 ELSE h.buckets[b]],
     sum |-> h.sum + v,
     count |-> h.count + 1]

HistogramRecord(rec, handle, v) ==
    IF handle = NoopHandle THEN rec
    ELSE [rec EXCEPT !.histograms[handle] = Observe(@, v)]

(* Mutant of ResponseTimeSeconds: the division is done on the integer *)
ResponseTimeWholeSeconds(response_time_ms) == (response_time_ms \div 1000) * 1000000

(* response_time_ms as f64 / 1000.0, in millionths of a second *)
ResponseTimeSeconds(response_time_ms) == response_time_ms * 1000

(* SystemTime::now().duration_since(UNIX_EPOCH).as_secs() *)
WallClockSecs(t) == (StartWallMs + t) \div 1000

-----------------------------------------------------------------------------
(* MetricsRegistry *)

NewRegistry ==
    [response_time_histograms |-> EmptyMap,
     request_counters |-> EmptyMap,
     failure_counters |-> EmptyMap,
     monitor_status_gauges |-> EmptyMap,
     last_success_timestamps |-> EmptyMap,
     monitor_metadata |-> EmptyMap]

RequestKey(id, status) == << id, status >>
FailureKey(id, error_type, status_code) == << id, error_type, UnwrapOr(status_code, 0) >>
StatusCodeLabel(status_code) ==
    IF IsSome(status_code) THEN ToString(UnwrapOr(status_code, 0)) ELSE "none"

HistogramSeries(id, meta) ==
    Series("http_monitor_response_time_seconds", id, meta, "", "", "")
RequestSeries(id, meta, status) ==
    Series("http_monitor_requests_total", id, meta, status, "", "")
FailureSeries(id, meta, error_type, status_code) ==
    Series("http_monitor_failures_total", id, meta, "", error_type,
           StatusCodeLabel(status_code))
UpSeries(id, meta) == Series("http_monitor_up", id, meta, "", "", "")
LastSuccessSeries(id, meta) ==
    Series("http_monitor_last_success_timestamp", id, meta, "", "", "")

(* A store is the pair of the registry and the recorder it writes to *)
Store(reg, rec) == [registry |-> reg, recorder |-> rec]

RegisterMetadata(st, id, metadata) ==
    Store([st.registry EXCEPT !.monitor_metadata = Insert(@, id, metadata)], st.recorder)

RegisterHistogram(st, id, metadata) ==
    LET key == HistogramSeries(id, metadata)
    IN  Store([st.registry EXCEPT !.response_time_histograms =
                   Insert(@, id, HandleFor(st.recorder, key))],
              RegisterSeries(st.recorder, "histograms", key, EmptyHistogram))

RegisterRequestCounters(st, id, metadata) ==
    LET success == RequestSeries(id, metadata, "success")
        failure == RequestSeries(id, metadata, "failure")
    IN  Store([st.registry EXCEPT !.request_counters =
                   Insert(Insert(@, RequestKey(id, "success"), HandleFor(st.recorder, success)),
                          RequestKey(id, "failure"), HandleFor(st.recorder, failure))],
              RegisterSeries(RegisterSeries(st.recorder, "counters", success, 0),
                             "counters", failure, 0))

(* Mutant of RegisterStatusGauge: a new up gauge starts at 1 *)
RegisterStatusGaugeUp(st, id, metadata) ==
    LET key == UpSeries(id, metadata)
    IN  Store([st.registry EXCEPT !.monitor_status_gauges =
                   Insert(@, id, HandleFor(st.recorder, key))],
              RegisterSeries(st.recorder, "gauges", key, 1))

RegisterStatusGauge(st, id, metadata) ==
    LET key == UpSeries(id, metadata)
    IN  Store([st.registry EXCEPT !.monitor_status_gauges =
                   Insert(@, id, HandleFor(st.recorder, key))],
              RegisterSeries(st.recorder, "gauges", key, 0))

RegisterLastSuccess(st, id, metadata) ==
    LET key == LastSuccessSeries(id, metadata)
    IN  Store([st.registry EXCEPT !.last_success_timestamps =
                   Insert(@, id, HandleFor(st.recorder, key))],
              RegisterSeries(st.recorder, "gauges", key, 0))

register_monitor(st, id, metadata) ==
    RegisterLastSuccess(
        RegisterStatusGauge(
            RegisterRequestCounters(
                RegisterHistogram(
                    RegisterMetadata(st, id, metadata), id, metadata),
                id, metadata),
            id, metadata),
        id, metadata)

(* The lock scopes of record_success and record_failure, one operator each *)

RecordResponseTime(st, monitor_id, response_time_ms) ==
    IF monitor_id \in DOMAIN st.registry.response_time_histograms
    THEN Store(st.registry,
               HistogramRecord(st.recorder, st.registry.response_time_histograms[monitor_id],
                               ResponseTimeSeconds(response_time_ms)))
    ELSE st

IncrementRequests(st, monitor_id, status) ==
    IF RequestKey(monitor_id, status) \in DOMAIN st.registry.request_counters
    THEN Store(st.registry,
               CounterIncrement(st.recorder,
                                st.registry.request_counters[RequestKey(monitor_id, status)], 1))
    ELSE st

(* Mutant of SetStatus: the gauge keeps its value *)
SetStatusStale(st, monitor_id, v) == st

SetStatus(st, monitor_id, v) ==
    IF monitor_id \in DOMAIN st.registry.monitor_status_gauges
    THEN Store(st.registry,
               GaugeSet(st.recorder, st.registry.monitor_status_gauges[monitor_id], v))
    ELSE st

SetLastSuccess(st, monitor_id, t) ==
    IF monitor_id \in DOMAIN st.registry.last_success_timestamps
    THEN Store(st.registry,
               GaugeSet(st.recorder, st.registry.last_success_timestamps[monitor_id],
                        WallClockSecs(t)))
    ELSE st

(* Mutant of IncrementFailureType: a counter is made up for an unknown monitor *)
IncrementFailureTypeUnchecked(st, monitor_id, error_type, status_code) ==
    LET meta == IF monitor_id \in DOMAIN st.registry.monitor_metadata
                THEN st.registry.monitor_metadata[monitor_id] ELSE NoMetadata
        failure_key == FailureKey(monitor_id, error_type, status_code)
        series == FailureSeries(monitor_id, meta, error_type, status_code)
        present == failure_key \in DOMAIN st.registry.failure_counters
        counter == IF present THEN st.registry.failure_counters[failure_key]
                   ELSE HandleFor(st.recorder, series)
        rec1 == IF present THEN st.recorder
                ELSE RegisterSeries(st.recorder, "counters", series, 0)
    IN  Store([st.registry EXCEPT !.failure_counters = Insert(@, failure_key, counter)],
              CounterIncrement(rec1, counter, 1))

IncrementFailureType(st, monitor_id, error_type, status_code) ==
    IF monitor_id \in DOMAIN st.registry.monitor_metadata
    THEN LET meta == st.registry.monitor_metadata[monitor_id]
             failure_key == FailureKey(monitor_id, error_type, status_code)
             series == FailureSeries(monitor_id, meta, error_type, status_code)
             present == failure_key \in DOMAIN st.registry.failure_counters
             counter == IF present THEN st.registry.failure_counters[failure_key]
                        ELSE HandleFor(st.recorder, series)
             rec1 == IF present THEN st.recorder
                     ELSE RegisterSeries(st.recorder, "counters", series, 0)
         IN  Store([st.registry EXCEPT !.failure_counters = Insert(@, failure_key, counter)],
                   CounterIncrement(rec1, counter, 1))
    ELSE st


-----------------------------------------------------------------------------
(* A call of the registry, and the position it has reached *)

IdleCall ==
    [op |-> "idle", pc |-> "idle", monitor_id |-> "", metadata |-> NoMetadata,
     response_time_ms |-> 0, error_type |-> "", status_code |-> None]

RegisterCall(id, metadata) ==
    [IdleCall EXCEPT !.op = "register_monitor", !.pc = "register", !.monitor_id = id,
                     !.metadata = metadata]

SuccessCall(monitor_id, response_time_ms) ==
    [IdleCall EXCEPT !.op = "record_success", !.pc = "histogram",
                     !.monitor_id = monitor_id, !.response_time_ms = response_time_ms]

FailureCall(monitor_id, response_time_ms, error_type, status_code) ==
    [IdleCall EXCEPT !.op = "record_failure", !.pc = "histogram",
                     !.monitor_id = monitor_id, !.response_time_ms = response_time_ms,
                     !.error_type = error_type, !.status_code = status_code]

Current == Store(registry, recorder)

(* The threads that call the registry at the same time *)
Threads == {"t1", "t2"}

(* The bag of returned record calls, with one more c *)
Returned(bag, c) ==
    LET d == [monitor_id |-> c.monitor_id, op |-> c.op,
              response_time_ms |-> c.response_time_ms, error_type |-> c.error_type,
              status_code |-> c.status_code]
    IN  Insert(bag, d, (IF d \in DOMAIN bag THEN bag[d] ELSE 0) + 1)

(* No probe has been answered yet *)
NoAnswer == [ok |-> FALSE, status |-> 0, text |-> "", elapsed |-> 0]

(* One lock scope of a call: the store becomes st, the call moves on to next *)
Step(st, next) ==
    /\ registry' = st.registry
    /\ recorder' = st.recorder
    /\ call' = [call EXCEPT !.pc = next]
    /\ completed' = IF next = "done" /\ call.op # "register_monitor"
                    THEN [completed EXCEPT ![call.monitor_id] =
                              IF call.monitor_id \in DOMAIN pre.registry.monitor_metadata
                              THEN call.op ELSE "dropped"]
                    ELSE completed
    /\ recorded' = IF next = "done" /\ call.op # "register_monitor"
                            /\ call.monitor_id \in DOMAIN pre.registry.monitor_metadata
                   THEN Returned(recorded, call)
                   ELSE recorded
    /\ UNCHANGED << pre, rendered, clock, pc, calls, threads >>
    /\ UNCHANGED workerVars /\ UNCHANGED startVars

RegisterMonitor ==
    /\ call.op = "register_monitor" /\ call.pc = "register"
    /\ Step(register_monitor(Current, call.monitor_id, call.metadata), "done")

RecordSuccessHistogram ==
    /\ call.op = "record_success" /\ call.pc = "histogram"
    /\ Step(RecordResponseTime(Current, call.monitor_id, call.response_time_ms), "counter")

(* Mutant of RecordSuccessCounter: the success counter is incremented twice *)
RecordSuccessCounterTwice ==
    /\ call.op = "record_success" /\ call.pc = "counter"
    /\ Step(IncrementRequests(IncrementRequests(Current, call.monitor_id, "success"),
                              call.monitor_id, "success"), "gauge")

RecordSuccessCounter ==
    /\ call.op = "record_success" /\ call.pc = "counter"
    /\ Step(IncrementRequests(Current, call.monitor_id, "success"), "gauge")

RecordSuccessGauge ==
    /\ call.op = "record_success" /\ call.pc = "gauge"
    /\ Step(SetStatus(Current, call.monitor_id, 1), "timestamp")

RecordSuccessTimestamp ==
    /\ call.op = "record_success" /\ call.pc = "timestamp"
    /\ Step(SetLastSuccess(Current, call.monitor_id, clock), "done")

RecordFailureHistogram ==
    /\ call.op = "record_failure" /\ call.pc = "histogram"
    /\ Step(RecordResponseTime(Current, call.monitor_id, call.response_time_ms), "counter")

(* Mutant of RecordFailureCounter: a failure counts as a success as well *)
RecordFailureCounterBoth ==
    /\ call.op = "record_failure" /\ call.pc = "counter"
    /\ Step(IncrementRequests(IncrementRequests(Current, call.monitor_id, "failure"),
                              call.monitor_id, "success"), "failure_type")

RecordFailureCounter ==
    /\ call.op = "record_failure" /\ call.pc = "counter"
    /\ Step(IncrementRequests(Current, call.monitor_id, "failure"), "failure_type")

(* Mutant of RecordFailureType: no failure-type counter is incremented *)
RecordFailureTypeSkipped ==
    /\ call.op = "record_failure" /\ call.pc = "failure_type"
    /\ Step(Current, "gauge")

RecordFailureType ==
    /\ call.op = "record_failure" /\ call.pc = "failure_type"
    /\ Step(IncrementFailureType(Current, call.monitor_id, call.error_type,
                                 call.status_code), "gauge")

(* Mutant of RecordFailureGauge: a failure leaves the up gauge as it is *)
RecordFailureGaugeSkipped ==
    /\ call.op = "record_failure" /\ call.pc = "gauge"
    /\ Step(Current, "done")

RecordFailureGauge ==
    /\ call.op = "record_failure" /\ call.pc = "gauge"
    /\ Step(SetStatus(Current, call.monitor_id, 0), "done")

(* The exposition reader: GET /metrics renders every series of the recorder *)
Render ==
    /\ recorder.installed
    /\ rendered' = [counters |-> recorder.counters, gauges |-> recorder.gauges,
                    histograms |-> recorder.histograms]
    /\ rendered' # rendered
    /\ UNCHANGED << clock, pc, calls >>
    /\ UNCHANGED storeVars
    /\ UNCHANGED workerVars /\ UNCHANGED startVars

NothingRendered == [counters |-> EmptyMap, gauges |-> EmptyMap, histograms |-> EmptyMap]

-----------------------------------------------------------------------------
(* A client of the registry API *)

ClientIds == {"m1", "m2"}
ClientLatencies == {100, 2500}
ClientFailures == { << "timeout", None >>, << "timeout", Some(0) >>,
                    << "http_error", Some(404) >> }
ClientDelays == {0, 600}

NoResult ==
    [monitor_id |-> "", success |-> FALSE, response_time_ms |-> 0,
     status_code |-> None, error_message |-> None]

Begin(c, d) ==
    /\ call' = c
    /\ pre' = Current
    /\ clock' = clock + d
    /\ calls' = calls + 1
    /\ UNCHANGED << registry, recorder, completed, rendered, pc, threads, recorded >>
    /\ UNCHANGED workerVars /\ UNCHANGED startVars

ClientRegister ==
    /\ pc = "client" /\ call.op = "idle" /\ calls < MaxCalls
    /\ \E id \in ClientIds : Begin(RegisterCall(id, MetadataOf(MonitorOf(id))), 0)

ClientRecordSuccess ==
    /\ pc = "client" /\ call.op = "idle" /\ calls < MaxCalls
    /\ \E id \in ClientIds, ms \in ClientLatencies, d \in ClientDelays :
           Begin(SuccessCall(id, ms), d)

ClientRecordFailure ==
    /\ pc = "client" /\ call.op = "idle" /\ calls < MaxCalls
    /\ \E id \in ClientIds, ms \in ClientLatencies, f \in ClientFailures :
           Begin(FailureCall(id, ms, f[1], f[2]), 0)

ClientReturn ==
    /\ pc = "client" /\ call.pc = "done"
    /\ call' = IdleCall
    /\ UNCHANGED << registry, recorder, pre, completed, rendered, clock, pc, calls,
                    threads, recorded >>
    /\ UNCHANGED workerVars /\ UNCHANGED startVars

NoTimes == [id \in MonitorIds |-> None]

-----------------------------------------------------------------------------
(* Settings: the settings file and its parsing *)

(* A TOML document: whether it is well formed, its [[monitors]] tables in  *)
(* file order (None: no monitors key), each key of a table with its value  *)
(* or None when the table lacks the key, and prometheus_url                *)
TomlMonitor(id, name, url, interval, enabled) ==
    [id |-> id, name |-> name, url |-> url, interval |-> interval, enabled |-> enabled]

TomlDocument(well_formed, monitors, prometheus_url) ==
    [well_formed |-> well_formed, monitors |-> monitors, prometheus_url |-> prometheus_url]

NotToml == TomlDocument(FALSE, None, None)

(* The path: nothing there; something that cannot be read as text; a file *)
NoFile == [exists |-> FALSE, readable |-> FALSE, content |-> NotToml]
UnreadableFile == [exists |-> TRUE, readable |-> FALSE, content |-> NotToml]
TextFile(content) == [exists |-> TRUE, readable |-> TRUE, content |-> content]

(* Result<Settings, Error> *)
NoSettings == [monitors |-> << >>, prometheus_url |-> None]
Ok(value) == [is_ok |-> TRUE, value |-> value, kind |-> "", panicked |-> FALSE]
Err(kind) == [is_ok |-> FALSE, value |-> NoSettings, kind |-> kind, panicked |-> FALSE]
NotLoaded == [is_ok |-> FALSE, value |-> NoSettings, kind |-> "", panicked |-> FALSE]

(* #[derive(Deserialize)] of MonitorConfig: every field is required, id is *)
(* a Uuid, interval a u64 and enabled a bool                               *)
DeserializesMonitor(t) ==
    /\ IsSome(t.id) /\ IsSome(t.name) /\ IsSome(t.url)
    /\ IsSome(t.interval) /\ UnwrapOr(t.interval, 0) >= 0
    /\ IsSome(t.enabled)

MonitorConfig(t) ==
    Monitor(UnwrapOr(t.id, ""), UnwrapOr(t.name, ""), UnwrapOr(t.url, ""),
            UnwrapOr(t.interval, 0), UnwrapOr(t.enabled, FALSE))

(* Mutant of toml_from_str: a table that lacks a field is left out *)
toml_from_str_lenient(content) ==
    IF ~content.well_formed \/ content.monitors = None
    THEN Err("InvalidData")
    ELSE LET tables == UnwrapOr(content.monitors, << >>)
             kept == SelectSeq(tables, DeserializesMonitor)
         IN  Ok([monitors |-> [i \in 1..Len(kept) |-> MonitorConfig(kept[i])],
                 prometheus_url |-> content.prometheus_url])

(* toml::from_str::<Settings>: monitors is required, prometheus_url is not *)
toml_from_str(content) ==
    IF ~content.well_formed \/ content.monitors = None
    THEN Err("InvalidData")
    ELSE LET tables == UnwrapOr(content.monitors, << >>)
         IN  IF \E i \in 1..Len(tables) : ~DeserializesMonitor(tables[i])
             THEN Err("InvalidData")
             ELSE Ok([monitors |-> [i \in 1..Len(tables) |-> MonitorConfig(tables[i])],
                      prometheus_url |-> content.prometheus_url])

(* Settings::from_str *)
from_str(content) == toml_from_str(content)

(* Settings::load *)
load(path) ==
    IF ~path.exists THEN Err("NotFound")
    ELSE IF ~path.readable THEN Err("InvalidData")
    ELSE toml_from_str(path.content)

(* The documents and files the functions are applied to *)
TomlMonitors ==
    { TomlMonitor(Some(id), Some("Test Site"), Some("https://test.com"), Some(45), Some(e)) :
          id \in {"m1", "m2"}, e \in BOOLEAN }
    \cup { TomlMonitor(None, Some("Missing Id"), Some("https://missing.com"), Some(60), Some(TRUE)),
            TomlMonitor(Some("m1"), None, Some("https://missing.com"), Some(60), Some(TRUE)),
            TomlMonitor(Some("m1"), Some("Missing URL"), None, Some(60), Some(TRUE)),
            TomlMonitor(Some("m1"), Some("Missing Interval"), Some("https://missing.com"), None,
                        Some(TRUE)),
            TomlMonitor(Some("m1"), Some("Missing Enabled Field"), Some("https://missing.com"),
                        Some(60), None),
            TomlMonitor(Some("m1"), Some("Negative"), Some("https://missing.com"), Some(-1),
                        Some(FALSE)) }

TomlTables == UNION { [1..n -> TomlMonitors] : n \in 0..MaxFileMonitors }

TomlDocuments ==
    { NotToml, TomlDocument(TRUE, None, Some("http://localhost:9090")) }
    \cup { TomlDocument(TRUE, Some(ts), None) : ts \in TomlTables }

Files == { NoFile, UnreadableFile } \cup { TextFile(d) : d \in TomlDocuments }

SettingsLoad ==
    /\ pc = "settings"
    /\ loaded' = load(file)
    /\ pc' = "loaded"
    /\ UNCHANGED << file, joined, rendered, clock, calls >>
    /\ UNCHANGED storeVars
    /\ UNCHANGED workerVars

SettingsFromStr ==
    /\ pc = "settings" /\ file.readable
    /\ loaded' = from_str(file.content)
    /\ pc' = "parsed"
    /\ UNCHANGED << file, joined, rendered, clock, calls >>
    /\ UNCHANGED storeVars
    /\ UNCHANGED workerVars

InitCommon ==
    /\ registry = NewRegistry
    /\ call = IdleCall
    /\ pre = Store(NewRegistry, NoRecorder)
    /\ completed = [id \in MonitorIds |-> "none"]
    /\ rendered = NothingRendered
    /\ clock = 0
    /\ cycle = 0
    /\ loop_start = 0
    /\ now = 0
    /\ last_run_times = EmptyMap
    /\ monitors_to_check = << >>
    /\ idx = 1
    /\ result = NoResult
    /\ cycle_log = << >>
    /\ probed_at = NoTimes
    /\ started_at = NoTimes
    /\ probed_before = NoTimes
    /\ calls = 0
    /\ threads = [t \in Threads |-> IdleCall]
    /\ recorded = EmptyMap
    /\ answered = NoAnswer
    /\ overruns = 0
    /\ loaded = NotLoaded
    /\ joined = << >>

SettingsInit ==
    /\ InitCommon
    /\ file \in Files
    /\ recorder = NoRecorder
    /\ pc = "settings"

SettingsNext ==
    \/ SettingsLoad
    \/ SettingsFromStr

SettingsSpec == SettingsInit /\ [][SettingsNext]_vars

RegistryInit ==
    /\ InitCommon
    /\ file = NoFile
    /\ recorder = InstallRecorder(NoRecorder)
    /\ pc = "client"

RegistryNext ==
    \/ ClientRegister
    \/ ClientRecordSuccess
    \/ ClientRecordFailure
    \/ ClientReturn
    \/ RegisterMonitor
    \/ RecordSuccessHistogram
    \/ RecordSuccessCounter
    \/ RecordSuccessGauge
    \/ RecordSuccessTimestamp
    \/ RecordFailureHistogram
    \/ RecordFailureCounter
    \/ RecordFailureType
    \/ RecordFailureGauge
    \/ Render

RegistrySpec == RegistryInit /\ [][RegistryNext]_vars

-----------------------------------------------------------------------------
(* A client that records latencies for one registered monitor *)

HistogramLatencies == {0, 50, 51, 2500, 30000, 30001}

HistogramClientStart ==
    /\ pc = "histogram_setup"
    /\ LET st == register_monitor(Current, "m1", MetadataOf(MonitorOf("m1")))
       IN  /\ registry' = st.registry
           /\ recorder' = st.recorder
    /\ pc' = "client"
    /\ UNCHANGED << call, pre, completed, rendered, clock, calls, threads, recorded >>
    /\ UNCHANGED workerVars /\ UNCHANGED startVars

HistogramClientRecord ==
    /\ pc = "client" /\ call.op = "idle" /\ calls < MaxCalls
    /\ \E ms \in HistogramLatencies : Begin(SuccessCall("m1", ms), 0)

HistogramInit ==
    /\ InitCommon
    /\ file = NoFile
    /\ recorder = InstallRecorder(NoRecorder)
    /\ pc = "histogram_setup"

HistogramNext ==
    \/ HistogramClientStart
    \/ HistogramClientRecord
    \/ RecordSuccessHistogram
    \/ RecordSuccessCounter
    \/ RecordSuccessGauge
    \/ RecordSuccessTimestamp
    \/ ClientReturn

HistogramSpec == HistogramInit /\ [][HistogramNext]_vars

-----------------------------------------------------------------------------
(* Threads that record into the shared METRICS_REGISTRY at the same time *)

(* The next lock scope of the record call c on the store st at time t: the *)
(* store it leaves and the position the call moves to                      *)
LockScope(c, st, t) ==
    CASE c.op = "record_success" /\ c.pc = "histogram" ->
             [store |-> RecordResponseTime(st, c.monitor_id, c.response_time_ms),
              pc |-> "counter"]
      [] c.op = "record_success" /\ c.pc = "counter" ->
             [store |-> IncrementRequests(st, c.monitor_id, "success"), pc |-> "gauge"]
      [] c.op = "record_success" /\ c.pc = "gauge" ->
             [store |-> SetStatus(st, c.monitor_id, 1), pc |-> "timestamp"]
      [] c.op = "record_success" /\ c.pc = "timestamp" ->
             [store |-> SetLastSuccess(st, c.monitor_id, t), pc |-> "done"]
      [] c.op = "record_failure" /\ c.pc = "histogram" ->
             [store |-> RecordResponseTime(st, c.monitor_id, c.response_time_ms),
              pc |-> "counter"]
      [] c.op = "record_failure" /\ c.pc = "counter" ->
             [store |-> IncrementRequests(st, c.monitor_id, "failure"),
              pc |-> "failure_type"]
      [] c.op = "record_failure" /\ c.pc = "failure_type" ->
             [store |-> IncrementFailureType(st, c.monitor_id, c.error_type, c.status_code),
              pc |-> "gauge"]
      [] c.op = "record_failure" /\ c.pc = "gauge" ->
             [store |-> SetStatus(st, c.monitor_id, 0), pc |-> "done"]

ConcurrentIds == {"m1"}
ConcurrentLatencies == {100}
ConcurrentFailures == { << "timeout", None >>, << "http_error", Some(404) >> }

(* The monitors are registered before any thread records (Worker::new) *)
RECURSIVE RegisterEach(_, _)
RegisterEach(st, ids) ==
    IF ids = {} THEN st
    ELSE LET id == CHOOSE x \in ids : TRUE
         IN  RegisterEach(register_monitor(st, id, MetadataOf(MonitorOf(id))), ids \ {id})

ThreadsStart ==
    /\ pc = "setup"
    /\ LET st == RegisterEach(Current, ClientIds)
       IN  /\ registry' = st.registry
           /\ recorder' = st.recorder
    /\ pc' = "threads"
    /\ UNCHANGED << call, pre, completed, rendered, clock, calls, threads, recorded >>
    /\ UNCHANGED workerVars /\ UNCHANGED startVars

ThreadBegin(t, c, d) ==
    /\ threads' = [threads EXCEPT ![t] = c]
    /\ clock' = clock + d
    /\ calls' = calls + 1
    /\ UNCHANGED << registry, recorder, call, pre, completed, rendered, pc, recorded >>
    /\ UNCHANGED workerVars /\ UNCHANGED startVars

ThreadRecordSuccess ==
    /\ pc = "threads" /\ calls < MaxCalls
    /\ \E t \in Threads, id \in ConcurrentIds, ms \in ConcurrentLatencies,
          d \in ClientDelays :
           /\ threads[t].op = "idle"
           /\ ThreadBegin(t, SuccessCall(id, ms), d)

ThreadRecordFailure ==
    /\ pc = "threads" /\ calls < MaxCalls
    /\ \E t \in Threads, id \in ConcurrentIds, ms \in ConcurrentLatencies,
          f \in ConcurrentFailures :
           /\ threads[t].op = "idle"
           /\ ThreadBegin(t, FailureCall(id, ms, f[1], f[2]), 0)

(* One thread runs its next lock scope; the call returns after its last one *)
ThreadStep ==
    /\ pc = "threads"
    /\ \E t \in Threads :
           /\ threads[t].op \in {"record_success", "record_failure"}
           /\ LET r == LockScope(threads[t], Current, clock)
              IN  /\ registry' = r.store.registry
                  /\ recorder' = r.store.recorder
                  /\ threads' = [threads EXCEPT ![t] =
                                     IF r.pc = "done" THEN IdleCall
                                     ELSE [threads[t] EXCEPT !.pc = r.pc]]
                  /\ recorded' = IF r.pc = "done" THEN Returned(recorded, threads[t])
                                 ELSE recorded
                  /\ completed' = IF r.pc = "done"
                                  THEN [completed EXCEPT ![threads[t].monitor_id] =
                                            threads[t].op]
                                  ELSE completed
    /\ UNCHANGED << call, pre, rendered, clock, pc, calls >>
    /\ UNCHANGED workerVars /\ UNCHANGED startVars

ConcurrentInit ==
    /\ InitCommon
    /\ file = NoFile
    /\ recorder = InstallRecorder(NoRecorder)
    /\ pc = "setup"

ConcurrentNext ==
    \/ ThreadsStart
    \/ ThreadRecordSuccess
    \/ ThreadRecordFailure
    \/ ThreadStep
    \/ Render

ConcurrentSpec == ConcurrentInit /\ [][ConcurrentNext]_vars

-----------------------------------------------------------------------------
(* The mutexes of the registry: threads that register and record at the   *)
(* same time, each lock() and each end of a lock scope a step of its own   *)

(* The mutex a call locks next at each position.  At failure_type_locked   *)
(* record_failure holds monitor_metadata and locks failure_counters inside *)
(* that scope.                                                             *)

(* Mutant of MutexAt: the nested lock() is on monitor_metadata again *)
MutexAtRelock ==
    [register |-> "monitor_metadata",
     reg_histogram |-> "response_time_histograms",
     reg_counters |-> "request_counters",
     reg_gauge |-> "monitor_status_gauges",
     reg_timestamp |-> "last_success_timestamps",
     histogram |-> "response_time_histograms",
     counter |-> "request_counters",
     failure_type |-> "monitor_metadata",
     failure_type_locked |-> "monitor_metadata",
     gauge |-> "monitor_status_gauges",
     timestamp |-> "last_success_timestamps"]

MutexAt ==
    [register |-> "monitor_metadata",
     reg_histogram |-> "response_time_histograms",
     reg_counters |-> "request_counters",
     reg_gauge |-> "monitor_status_gauges",
     reg_timestamp |-> "last_success_timestamps",
     histogram |-> "response_time_histograms",
     counter |-> "request_counters",
     failure_type |-> "monitor_metadata",
     failure_type_locked |-> "failure_counters",
     gauge |-> "monitor_status_gauges",
     timestamp |-> "last_success_timestamps"]

(* The position a call is at once the lock() at a position has returned *)
LockedAt ==
    [register |-> "register_locked",
     reg_histogram |-> "reg_histogram_locked",
     reg_counters |-> "reg_counters_locked",
     reg_gauge |-> "reg_gauge_locked",
     reg_timestamp |-> "reg_timestamp_locked",
     histogram |-> "histogram_locked",
     counter |-> "counter_locked",
     failure_type |-> "failure_type_locked",
     failure_type_locked |-> "failure_type_nested",
     gauge |-> "gauge_locked",
     timestamp |-> "timestamp_locked"]

(* The guards alive at each position inside a lock scope *)
HeldAt ==
    [register_locked |-> {"monitor_metadata"},
     reg_histogram_locked |-> {"response_time_histograms"},
     reg_counters_locked |-> {"request_counters"},
     reg_gauge_locked |-> {"monitor_status_gauges"},
     reg_timestamp_locked |-> {"last_success_timestamps"},
     histogram_locked |-> {"response_time_histograms"},
     counter_locked |-> {"request_counters"},
     failure_type_locked |-> {"monitor_metadata"},
     failure_type_nested |-> {"monitor_metadata", "failure_counters"},
     gauge_locked |-> {"monitor_status_gauges"},
     timestamp_locked |-> {"last_success_timestamps"}]

(* The lock scope a position is inside of *)
ScopeAt ==
    [histogram_locked |-> "histogram",
     counter_locked |-> "counter",
     failure_type_locked |-> "failure_type",
     failure_type_nested |-> "failure_type",
     gauge_locked |-> "gauge",
     timestamp_locked |-> "timestamp"]

Held(c) == IF c.pc \in DOMAIN HeldAt THEN HeldAt[c.pc] ELSE {}
HeldByAny == UNION { Held(threads[t]) : t \in Threads }

(* record_failure locks failure_counters only when the metadata has the id *)
LocksNext(c) ==
    /\ c.pc \in DOMAIN MutexAt
    /\ c.pc = "failure_type_locked" => c.monitor_id \in DOMAIN registry.monitor_metadata

(* The lock scopes of register_monitor: what the scope does to the store *)
(* and the position after it                                            *)
RegisterScope(c, st) ==
    CASE c.pc = "register_locked" ->
             [store |-> RegisterMetadata(st, c.monitor_id, c.metadata), pc |-> "reg_histogram"]
      [] c.pc = "reg_histogram_locked" ->
             [store |-> RegisterHistogram(st, c.monitor_id, c.metadata), pc |-> "reg_counters"]
      [] c.pc = "reg_counters_locked" ->
             [store |-> RegisterRequestCounters(st, c.monitor_id, c.metadata),
              pc |-> "reg_gauge"]
      [] c.pc = "reg_gauge_locked" ->
             [store |-> RegisterStatusGauge(st, c.monitor_id, c.metadata),
              pc |-> "reg_timestamp"]
      [] c.pc = "reg_timestamp_locked" ->
             [store |-> RegisterLastSuccess(st, c.monitor_id, c.metadata), pc |-> "done"]

(* What the lock scope a call is inside of has done when its guards drop *)
ScopeEnd(c, st, t) ==
    IF c.op = "register_monitor" THEN RegisterScope(c, st)
    ELSE LockScope([c EXCEPT !.pc = ScopeAt[c.pc]], st, t)

LockIds == {"m1"}
LockLatencies == {100}
LockFailures == { << "timeout", None >> }

LockRegister(t) ==
    /\ pc = "threads" /\ calls < MaxLockCalls
    /\ threads[t].op = "idle"
    /\ \E id \in LockIds : ThreadBegin(t, RegisterCall(id, MetadataOf(MonitorOf(id))), 0)

LockRecordSuccess(t) ==
    /\ pc = "threads" /\ calls < MaxLockCalls
    /\ threads[t].op = "idle"
    /\ \E id \in LockIds, ms \in LockLatencies : ThreadBegin(t, SuccessCall(id, ms), 0)

LockRecordFailure(t) ==
    /\ pc = "threads" /\ calls < MaxLockCalls
    /\ threads[t].op = "idle"
    /\ \E id \in LockIds, ms \in LockLatencies, f \in LockFailures :
           ThreadBegin(t, FailureCall(id, ms, f[1], f[2]), 0)

(* lock() can return: the mutex is free *)
CanLock(t) == LocksNext(threads[t]) /\ MutexAt[threads[t].pc] \notin HeldByAny

(* The thread is at the end of a lock scope *)
AtScopeEnd(t) == threads[t].pc \in DOMAIN HeldAt /\ ~LocksNext(threads[t])

LockAcquire(t) ==
    /\ pc = "threads"
    /\ CanLock(t)
    /\ threads' = [threads EXCEPT ![t].pc = LockedAt[threads[t].pc]]
    /\ UNCHANGED << registry, recorder, call, pre, completed, rendered, clock, pc, calls,
                    recorded >>
    /\ UNCHANGED workerVars /\ UNCHANGED startVars

(* The end of a lock scope: its guards are dropped; the call returns after *)
(* its last scope                                                          *)
LockRelease(t) ==
    /\ pc = "threads"
    /\ AtScopeEnd(t)
    /\ LET c == threads[t]
           r == ScopeEnd(c, Current, clock)
       IN  /\ registry' = r.store.registry
           /\ recorder' = r.store.recorder
           /\ threads' = [threads EXCEPT ![t] =
                              IF r.pc = "done" THEN IdleCall ELSE [c EXCEPT !.pc = r.pc]]
           /\ recorded' = IF r.pc = "done" /\ c.op # "register_monitor"
                          THEN Returned(recorded, c) ELSE recorded
           /\ completed' = IF r.pc = "done" /\ c.op # "register_monitor"
                           THEN [completed EXCEPT ![c.monitor_id] = c.op]
                           ELSE completed
    /\ UNCHANGED << call, pre, rendered, clock, pc, calls >>
    /\ UNCHANGED workerVars /\ UNCHANGED startVars

LockInit ==
    /\ InitCommon
    /\ file = NoFile
    /\ recorder = InstallRecorder(NoRecorder)
    /\ pc = "threads"

LockNext ==
    \/ \E t \in Threads : LockRegister(t)
    \/ \E t \in Threads : LockRecordSuccess(t)
    \/ \E t \in Threads : LockRecordFailure(t)
    \/ \E t \in Threads : LockAcquire(t)
    \/ \E t \in Threads : LockRelease(t)
    \/ Render

(* A thread that is in a call keeps running: it takes a mutex that stays *)
(* free and it leaves a lock scope it is in                              *)
LockSpec ==
    /\ LockInit /\ [][LockNext]_vars
    /\ \A t \in Threads : WF_vars(LockAcquire(t)) /\ WF_vars(LockRelease(t))


-----------------------------------------------------------------------------
(* The probe client: what the network can answer to one GET *)

Response(status, elapsed) == [ok |-> TRUE, status |-> status, text |-> "", elapsed |-> elapsed]
TransportError(text, elapsed) == [ok |-> FALSE, status |-> 0, text |-> text, elapsed |-> elapsed]

NetworkOutcomes ==
    { Response(200, 100),
      Response(404, 250),
      TransportError("operation timeout", 30000),
      TransportError("dns error: failed to lookup address", 20),
      TransportError("dns error: timeout", 5000),
      TransportError("connection refused", 0) }

(* str::contains, for the texts above and the needles of record_metrics *)
Contains(msg, needle) ==
    \/ needle = "timeout" /\ msg \in {"operation timeout", "dns error: timeout"}
    \/ needle = "dns" /\ msg \in {"dns error: failed to lookup address", "dns error: timeout"}

(* StatusCode::is_success *)
IsSuccess(status) == 200 <= status /\ status <= 299

(* Mutant of check_monitor: a status outside the success range is handled *)
(* like a transport error                                                *)
check_monitor_status_as_error(monitor, answer) ==
    IF answer.ok /\ IsSuccess(answer.status)
    THEN [monitor_id |-> monitor.id,
          success |-> TRUE,
          response_time_ms |-> answer.elapsed,
          status_code |-> Some(answer.status),
          error_message |-> None]
    ELSE [monitor_id |-> monitor.id,
          success |-> FALSE,
          response_time_ms |-> answer.elapsed,
          status_code |-> None,
          error_message |-> Some(answer.text)]

(* check_monitor: the MonitorResult built from the answer *)
check_monitor(monitor, answer) ==
    IF answer.ok
    THEN [monitor_id |-> monitor.id,
          success |-> IsSuccess(answer.status),
          response_time_ms |-> answer.elapsed,
          status_code |-> Some(answer.status),
          error_message |-> IF IsSuccess(answer.status) THEN None
                            ELSE Some("HTTP " \o ToString(answer.status))]
    ELSE [monitor_id |-> monitor.id,
          success |-> FALSE,
          response_time_ms |-> answer.elapsed,
          status_code |-> None,
          error_message |-> Some(answer.text)]

(* record_metrics: the error type of a failed result *)
MessageContains(error_message, needle) ==
    IsSome(error_message) /\ Contains(UnwrapOr(error_message, ""), needle)

(* Mutant of ErrorType: the text is searched for "dns" first *)
ErrorTypeDnsFirst(res) ==
    IF MessageContains(res.error_message, "dns") THEN "dns_error"
    ELSE IF MessageContains(res.error_message, "timeout") THEN "timeout"
    ELSE IF IsSome(res.status_code) THEN "http_error"
    ELSE "connection_error"

ErrorType(res) ==
    IF MessageContains(res.error_message, "timeout") THEN "timeout"
    ELSE IF IsSome(res.status_code) THEN "http_error"
    ELSE IF MessageContains(res.error_message, "dns") THEN "dns_error"
    ELSE "connection_error"

(* Mutant of record_metrics: the outcome is not looked at *)
record_metrics_success_only(res) == SuccessCall(res.monitor_id, res.response_time_ms)

record_metrics(res) ==
    IF res.success
    THEN SuccessCall(res.monitor_id, res.response_time_ms)
    ELSE FailureCall(res.monitor_id, res.response_time_ms, ErrorType(res), res.status_code)

-----------------------------------------------------------------------------
(* The scheduler *)

(* Mutant of IntervalDuration: the interval is counted in seconds *)
IntervalDurationSeconds(monitor) == monitor.interval * 1000

(* Duration::from_secs(monitor.interval * 60), in ms *)
IntervalDuration(monitor) == monitor.interval * SecondsPerMinute * 1000

(* Mutants of ShouldRun: a strict comparison; no first run *)
ShouldRunStrict(monitor, lrt, t) ==
    IF monitor.id \in DOMAIN lrt
    THEN t - lrt[monitor.id] > IntervalDuration(monitor)
    ELSE TRUE

ShouldRunNoFirstRun(monitor, lrt, t) ==
    IF monitor.id \in DOMAIN lrt
    THEN t - lrt[monitor.id] >= IntervalDuration(monitor)
    ELSE FALSE

ShouldRun(monitor, lrt, t) ==
    IF monitor.id \in DOMAIN lrt
    THEN t - lrt[monitor.id] >= IntervalDuration(monitor)
    ELSE TRUE

(* Mutant of IsSkipped: the enabled flag is ignored *)
IsSkippedNever(monitor) == FALSE

IsSkipped(monitor) == ~monitor.enabled

(* The first loop of check_due_monitors, from monitor i on: the due monitors *)
(* in list order and the last-run times after the loop                      *)
RECURSIVE DueLoop(_, _, _, _)

(* Mutant of DueLoop: the entry of a target that is not due is dropped *)
DueLoopDropsNotDue(i, lrt, due, t) ==
    IF i > Len(settings.monitors) THEN [due |-> due, last_run_times |-> lrt]
    ELSE LET monitor == settings.monitors[i]
         IN  IF IsSkipped(monitor) THEN DueLoop(i + 1, lrt, due, t)
             ELSE IF ShouldRun(monitor, lrt, t)
                  THEN DueLoop(i + 1, Insert(lrt, monitor.id, t), Append(due, monitor), t)
                  ELSE DueLoop(i + 1, [x \in DOMAIN lrt \ {monitor.id} |-> lrt[x]], due, t)

DueLoop(i, lrt, due, t) ==
    IF i > Len(settings.monitors) THEN [due |-> due, last_run_times |-> lrt]
    ELSE LET monitor == settings.monitors[i]
         IN  IF IsSkipped(monitor) THEN DueLoop(i + 1, lrt, due, t)
             ELSE IF ShouldRun(monitor, lrt, t)
                  THEN DueLoop(i + 1, Insert(lrt, monitor.id, t), Append(due, monitor), t)
                  ELSE DueLoop(i + 1, lrt, due, t)

(* Mutant of RegisterAll: only the first monitor is registered *)
RegisterFirstOnly(st, i) ==
    register_monitor(st, settings.monitors[1].id, MetadataOf(settings.monitors[1]))

(* Worker::new: every monitor of the settings is registered, in list order *)
RECURSIVE RegisterAll(_, _)
RegisterAll(st, i) ==
    IF i > Len(settings.monitors) THEN st
    ELSE CHOOSE r \in { RegisterAll(next, i + 1) :
                           next \in { register_monitor(st, settings.monitors[i].id,
                                                       MetadataOf(settings.monitors[i])) } } :
             TRUE

(* Mutant of SleepDuration: after a cycle of 60 s or more there is no sleep *)
SleepDurationNoMinimum(runtime) == IF runtime < Cadence THEN Cadence - runtime ELSE 0

(* Mutant of SleepDuration: the runtime of the cycle is not taken off *)
SleepDurationFixed(runtime) == Cadence

(* Mutant of SleepDuration: a runtime of exactly the cadence is no overrun *)
SleepDurationInclusive(runtime) == IF runtime <= Cadence THEN Cadence - runtime ELSE MinSleep

(* start: the sleep after a cycle that took runtime *)
SleepDuration(runtime) == IF runtime < Cadence THEN Cadence - runtime ELSE MinSleep

(* main: tokio::join! polls start_metrics_server, which installs the recorder, *)
(* before start_worker                                                        *)
StartMetricsServer ==
    /\ pc = "main"
    /\ recorder' = InstallRecorder(recorder)
    /\ pc' = "start_worker"
    /\ UNCHANGED << registry, call, pre, completed, rendered, clock, calls, threads,
                    recorded >>
    /\ UNCHANGED workerVars /\ UNCHANGED startVars

StartWorker ==
    /\ pc = "start_worker"
    /\ LET st == RegisterAll(Current, 1)
       IN  /\ registry' = st.registry
           /\ recorder' = st.recorder
    /\ last_run_times' = EmptyMap
    /\ pc' = "loop"
    /\ UNCHANGED << call, pre, completed, rendered, clock, calls, cycle, loop_start, now,
                    monitors_to_check, idx, result, cycle_log, probed_at, started_at, probed_before,
                    threads, recorded, answered, overruns >> /\ UNCHANGED startVars

LoopStart ==
    /\ pc = "loop" /\ cycle < MaxCycles
    /\ loop_start' = clock
    /\ cycle' = cycle + 1
    /\ pc' = "check_due"
    /\ UNCHANGED << clock, calls, now, last_run_times, monitors_to_check, idx, result,
                    cycle_log, probed_at, started_at, probed_before, rendered, answered, overruns >> /\ UNCHANGED startVars
    /\ UNCHANGED storeVars

CheckDueMonitors ==
    /\ pc = "check_due"
    /\ now' = clock
    /\ LET r == DueLoop(1, last_run_times, << >>, clock)
       IN  /\ monitors_to_check' = r.due
           /\ last_run_times' = r.last_run_times
           /\ pc' = IF r.due = << >> THEN "elapsed" ELSE "check_monitor"
    /\ idx' = 1
    /\ cycle_log' = << >>
    /\ probed_before' = probed_at
    /\ UNCHANGED << clock, calls, cycle, loop_start, result, probed_at, started_at, rendered, answered,
                    overruns >> /\ UNCHANGED startVars
    /\ UNCHANGED storeVars

(* Mutant of CheckMonitor: the last-run timestamp is set when the probe completes *)
CheckMonitorStampsCompletion ==
    /\ pc = "check_monitor"
    /\ \E a \in NetworkOutcomes :
          /\ answered' = a
          /\ result' = check_monitor(monitors_to_check[idx], a)
          /\ clock' = clock + a.elapsed
          /\ last_run_times' = Insert(last_run_times, monitors_to_check[idx].id,
                                      clock + a.elapsed)
    /\ cycle_log' = Append(cycle_log, << "probe", monitors_to_check[idx].id >>)
    /\ probed_at' = [probed_at EXCEPT ![monitors_to_check[idx].id] = Some(now)]
    /\ started_at' = [started_at EXCEPT ![monitors_to_check[idx].id] = Some(clock)]
    /\ pc' = "record_metrics"
    /\ UNCHANGED << calls, cycle, loop_start, now, monitors_to_check, idx,
                    probed_before, rendered, overruns >> /\ UNCHANGED startVars
    /\ UNCHANGED storeVars

CheckMonitor ==
    /\ pc = "check_monitor"
    /\ \E a \in NetworkOutcomes :
          /\ answered' = a
          /\ result' = check_monitor(monitors_to_check[idx], a)
          /\ clock' = clock + a.elapsed
    /\ cycle_log' = Append(cycle_log, << "probe", monitors_to_check[idx].id >>)
    /\ probed_at' = [probed_at EXCEPT ![monitors_to_check[idx].id] = Some(now)]
    /\ started_at' = [started_at EXCEPT ![monitors_to_check[idx].id] = Some(clock)]
    /\ pc' = "record_metrics"
    /\ UNCHANGED << calls, cycle, loop_start, now, last_run_times, monitors_to_check, idx,
                    probed_before, rendered, overruns >> /\ UNCHANGED startVars
    /\ UNCHANGED storeVars

RecordMetrics ==
    /\ pc = "record_metrics" /\ call.op = "idle"
    /\ call' = record_metrics(result)
    /\ pre' = Current
    /\ cycle_log' = Append(cycle_log, << record_metrics(result).op, result.monitor_id >>)
    /\ pc' = "recording"
    /\ UNCHANGED << registry, recorder, completed, rendered, clock, calls, cycle, loop_start,
                    now, last_run_times, monitors_to_check, idx, result, probed_at, started_at,
                    probed_before, threads, recorded, answered, overruns >> /\ UNCHANGED startVars

(* Mutants of RecordReturn: a failed probe ends the for loop over the due *)
(* monitors; a failed probe ends the scheduling loop                     *)
RecordReturnBreak ==
    /\ pc = "recording" /\ call.pc = "done"
    /\ call' = IdleCall
    /\ idx' = idx + 1
    /\ pc' = IF idx + 1 > Len(monitors_to_check) \/ ~result.success
             THEN "elapsed" ELSE "check_monitor"
    /\ UNCHANGED << registry, recorder, pre, completed, rendered, clock, calls, cycle,
                    loop_start, now, last_run_times, monitors_to_check, result, cycle_log,
                    probed_at, started_at, probed_before, threads, recorded, answered, overruns >> /\ UNCHANGED startVars

RecordReturnAbort ==
    /\ pc = "recording" /\ call.pc = "done"
    /\ call' = IdleCall
    /\ idx' = idx + 1
    /\ pc' = IF ~result.success THEN "aborted"
             ELSE IF idx + 1 > Len(monitors_to_check) THEN "elapsed" ELSE "check_monitor"
    /\ UNCHANGED << registry, recorder, pre, completed, rendered, clock, calls, cycle,
                    loop_start, now, last_run_times, monitors_to_check, result, cycle_log,
                    probed_at, started_at, probed_before, threads, recorded, answered, overruns >> /\ UNCHANGED startVars

RecordReturn ==
    /\ pc = "recording" /\ call.pc = "done"
    /\ call' = IdleCall
    /\ idx' = idx + 1
    /\ pc' = IF idx + 1 > Len(monitors_to_check) THEN "elapsed" ELSE "check_monitor"
    /\ UNCHANGED << registry, recorder, pre, completed, rendered, clock, calls, cycle,
                    loop_start, now, last_run_times, monitors_to_check, result, cycle_log,
                    probed_at, started_at, probed_before, threads, recorded, answered, overruns >> /\ UNCHANGED startVars

Sleep ==
    /\ pc = "elapsed"
    /\ clock' = clock + SleepDuration(clock - loop_start)
    /\ overruns' = IF clock - loop_start < Cadence THEN overruns ELSE overruns + 1
    /\ UNCHANGED startVars
    /\ pc' = "loop"
    /\ UNCHANGED << calls, cycle, loop_start, now, last_run_times, monitors_to_check, idx,
                    result, cycle_log, probed_at, started_at, probed_before, rendered, answered >>
    /\ UNCHANGED storeVars

Init ==
    /\ InitCommon
    /\ file = NoFile
    /\ recorder = NoRecorder
    /\ pc = "main"

Next ==
    \/ StartMetricsServer
    \/ StartWorker
    \/ LoopStart
    \/ CheckDueMonitors
    \/ CheckMonitor
    \/ RecordMetrics
    \/ RecordSuccessHistogram
    \/ RecordSuccessCounter
    \/ RecordSuccessGauge
    \/ RecordSuccessTimestamp
    \/ RecordFailureHistogram
    \/ RecordFailureCounter
    \/ RecordFailureType
    \/ RecordFailureGauge
    \/ RecordReturn
    \/ Sleep

Spec == Init /\ [][Next]_vars

(* The runtime keeps polling the worker task, every probe returns within   *)
(* the timeout of the client and every sleep ends                          *)
RecordCall ==
    \/ RecordSuccessHistogram \/ RecordSuccessCounter \/ RecordSuccessGauge
    \/ RecordSuccessTimestamp \/ RecordFailureHistogram \/ RecordFailureCounter
    \/ RecordFailureType \/ RecordFailureGauge

FairSpec ==
    /\ Spec
    /\ WF_vars(StartMetricsServer) /\ WF_vars(StartWorker)
    /\ WF_vars(LoopStart) /\ WF_vars(CheckDueMonitors) /\ WF_vars(CheckMonitor)
    /\ WF_vars(RecordMetrics) /\ WF_vars(RecordCall) /\ WF_vars(RecordReturn)
    /\ WF_vars(Sleep)


-----------------------------------------------------------------------------
(* The scheduling loop over more cycles, with probes that are answered at *)
(* once, answered just before the client gives up, or time out            *)

TimedOutcomes ==
    { Response(200, 100),
      Response(200, 29950),
      TransportError("operation timeout", 30000),
      TransportError("operation timeout", 30020) }

DriftLoopStart ==
    /\ pc = "loop" /\ cycle < MaxDriftCycles
    /\ loop_start' = clock
    /\ cycle' = cycle + 1
    /\ pc' = "check_due"
    /\ UNCHANGED << clock, calls, now, last_run_times, monitors_to_check, idx, result,
                    cycle_log, probed_at, started_at, probed_before, rendered, answered, overruns >> /\ UNCHANGED startVars
    /\ UNCHANGED storeVars

DriftCheckMonitor ==
    /\ pc = "check_monitor"
    /\ \E a \in TimedOutcomes :
          /\ answered' = a
          /\ result' = check_monitor(monitors_to_check[idx], a)
          /\ clock' = clock + a.elapsed
    /\ cycle_log' = Append(cycle_log, << "probe", monitors_to_check[idx].id >>)
    /\ probed_at' = [probed_at EXCEPT ![monitors_to_check[idx].id] = Some(now)]
    /\ started_at' = [started_at EXCEPT ![monitors_to_check[idx].id] = Some(clock)]
    /\ pc' = "record_metrics"
    /\ UNCHANGED << calls, cycle, loop_start, now, last_run_times, monitors_to_check, idx,
                    probed_before, rendered, overruns >> /\ UNCHANGED startVars
    /\ UNCHANGED storeVars

DriftNext ==
    \/ StartMetricsServer
    \/ StartWorker
    \/ DriftLoopStart
    \/ CheckDueMonitors
    \/ DriftCheckMonitor
    \/ RecordMetrics
    \/ RecordSuccessHistogram
    \/ RecordSuccessCounter
    \/ RecordSuccessGauge
    \/ RecordSuccessTimestamp
    \/ RecordFailureHistogram
    \/ RecordFailureCounter
    \/ RecordFailureType
    \/ RecordFailureGauge
    \/ RecordReturn
    \/ Sleep

DriftSpec == Init /\ [][DriftNext]_vars

-----------------------------------------------------------------------------
(* Start-up: main joins three futures in one task; tokio::join! polls them *)
(* in the order they are written, each running until it first suspends     *)

(* Mutant of JoinOrder: the worker is written before the metrics server *)
JoinOrderWorkerFirst == << "start_main_server", "start_worker", "start_metrics_server" >>

JoinOrder == << "start_main_server", "start_metrics_server", "start_worker" >>

NextJoined == IF Len(joined) < Len(JoinOrder) THEN JoinOrder[Len(joined) + 1] ELSE "none"

(* start_main_server: the router is built and port 3000 bound, which the *)
(* unwrap turns into a panic of main when it fails; then serve suspends  *)
PollMainServer ==
    /\ pc = "main" /\ NextJoined = "start_main_server"
    /\ joined' = Append(joined, "start_main_server")
    /\ \E bound \in BOOLEAN : pc' = IF bound THEN "main" ELSE "panicked"
    /\ UNCHANGED << file, loaded, rendered, clock, calls >>
    /\ UNCHANGED storeVars
    /\ UNCHANGED workerVars

(* start_metrics_server: metrics_app installs the recorder (expect panics *)
(* when that fails), port 3001 is bound (unwrap), then serve suspends     *)
PollMetricsServer ==
    /\ pc = "main" /\ NextJoined = "start_metrics_server"
    /\ joined' = Append(joined, "start_metrics_server")
    /\ \E installs \in BOOLEAN, bound \in BOOLEAN :
          /\ recorder' = IF installs THEN InstallRecorder(recorder) ELSE recorder
          /\ pc' = IF installs /\ bound THEN "main" ELSE "panicked"
    /\ UNCHANGED << file, loaded, registry, call, pre, completed, rendered, clock, calls,
                    threads, recorded >>
    /\ UNCHANGED workerVars

(* start_worker: Worker::new registers every monitor, then start enters its loop *)
PollWorker ==
    /\ pc = "main" /\ NextJoined = "start_worker"
    /\ joined' = Append(joined, "start_worker")
    /\ LET st == RegisterAll(Current, 1)
       IN  /\ registry' = st.registry
           /\ recorder' = st.recorder
    /\ last_run_times' = EmptyMap
    /\ pc' = "loop"
    /\ UNCHANGED << file, loaded, call, pre, completed, rendered, clock, calls, cycle,
                    loop_start, now, monitors_to_check, idx, result, cycle_log, probed_at, started_at,
                    probed_before, threads, recorded, answered, overruns >>

StartupNext ==
    \/ PollMainServer
    \/ PollMetricsServer
    \/ PollWorker
    \/ DriftLoopStart
    \/ CheckDueMonitors
    \/ DriftCheckMonitor
    \/ RecordMetrics
    \/ RecordSuccessHistogram
    \/ RecordSuccessCounter
    \/ RecordSuccessGauge
    \/ RecordSuccessTimestamp
    \/ RecordFailureHistogram
    \/ RecordFailureCounter
    \/ RecordFailureType
    \/ RecordFailureGauge
    \/ RecordReturn
    \/ Sleep

StartupSpec == Init /\ [][StartupNext]_vars

-----------------------------------------------------------------------------
(* main from its first line: the settings are loaded, the templates and the *)
(* Prometheus client are set up, then the three futures are joined          *)

(* The settings file that holds the monitors of settings, with and without *)
(* the prometheus_url key                                                  *)
SettingsTables ==
    [i \in 1..Len(settings.monitors) |->
        LET m == settings.monitors[i]
        IN  TomlMonitor(Some(m.id), Some(m.name), Some(m.url), Some(m.interval),
                        Some(m.enabled))]

PrometheusUrls == { None, Some("http://localhost:9090"), Some("http://prometheus:9090") }

MainFiles ==
    { NoFile } \cup { TextFile(TomlDocument(TRUE, Some(SettingsTables), u)) : u \in PrometheusUrls }

(* Settings::load(..).expect("failed to load settings") *)
MainLoad ==
    /\ pc = "settings"
    /\ loaded' = load(file)
    /\ pc' = IF load(file).is_ok THEN "templates" ELSE "panicked"
    /\ UNCHANGED << file, joined, rendered, clock, calls >>
    /\ UNCHANGED storeVars
    /\ UNCHANGED workerVars

(* Tera::new("templates/**/*").expect(..): the templates are found or not *)
MainTemplates ==
    /\ pc = "templates"
    /\ \E found \in BOOLEAN : pc' = IF found THEN "prometheus_client" ELSE "panicked"
    /\ UNCHANGED << rendered, clock, calls >>
    /\ UNCHANGED storeVars
    /\ UNCHANGED workerVars /\ UNCHANGED startVars

(* PrometheusClient { url: settings.prometheus_url.clone().unwrap() }: the *)
(* unwrap of None panics                                                   *)
MainPrometheusClient ==
    /\ pc = "prometheus_client"
    /\ pc' = IF IsSome(loaded.value.prometheus_url) THEN "main" ELSE "panicked"
    /\ UNCHANGED << rendered, clock, calls >>
    /\ UNCHANGED storeVars
    /\ UNCHANGED workerVars /\ UNCHANGED startVars

MainInit ==
    /\ InitCommon
    /\ file \in MainFiles
    /\ recorder = NoRecorder
    /\ pc = "settings"

MainNext ==
    \/ MainLoad
    \/ MainTemplates
    \/ MainPrometheusClient
    \/ StartupNext

MainSpec == MainInit /\ [][MainNext]_vars

-----------------------------------------------------------------------------
(* The scheduling loop with the exposition reader of the metrics server *)
(* running beside it                                                    *)

ReaderLoopStart ==
    /\ pc = "loop" /\ cycle < MaxReaderCycles
    /\ loop_start' = clock
    /\ cycle' = cycle + 1
    /\ pc' = "check_due"
    /\ UNCHANGED << clock, calls, now, last_run_times, monitors_to_check, idx, result,
                    cycle_log, probed_at, started_at, probed_before, rendered, answered, overruns >>
    /\ UNCHANGED startVars
    /\ UNCHANGED storeVars

ReaderNext ==
    \/ StartMetricsServer
    \/ StartWorker
    \/ ReaderLoopStart
    \/ CheckDueMonitors
    \/ DriftCheckMonitor
    \/ RecordMetrics
    \/ RecordSuccessHistogram
    \/ RecordSuccessCounter
    \/ RecordSuccessGauge
    \/ RecordSuccessTimestamp
    \/ RecordFailureHistogram
    \/ RecordFailureCounter
    \/ RecordFailureType
    \/ RecordFailureGauge
    \/ RecordReturn
    \/ Sleep
    \/ Render

ReaderSpec == Init /\ [][ReaderNext]_vars

-----------------------------------------------------------------------------
(* Properties of the scheduler, checked under Spec *)

Configured == {settings.monitors[i] : i \in 1..Len(settings.monitors)}
ValueOr0(m, k) == IF k \in DOMAIN m THEN m[k] ELSE 0
Enabled == {m \in Configured : m.enabled}
Disabled == {m \in Configured : ~m.enabled}

(* The cycle has dispatched everything it was going to dispatch *)
CycleOver == pc = "elapsed"

ProbedInCycle(id) == \E j \in 1..Len(cycle_log) : cycle_log[j] = << "probe", id >>

(* C1: an enabled target last dispatched by the cycle with timestamp t0 is  *)
(* not dispatched by a cycle with now < t0 + I and is dispatched by the     *)
(* first cycle with now >= t0 + I, I being interval * 60 s.                 *)
C1_DueIffIntervalElapsed ==
    CycleOver =>
        \A m \in Enabled :
            IsSome(probed_before[m.id]) =>
                LET t0 == UnwrapOr(probed_before[m.id], 0)
                IN  IF now >= t0 + m.interval * 60000
                    THEN probed_at[m.id] = Some(now) /\ ProbedInCycle(m.id)
                    ELSE probed_at[m.id] = Some(t0) /\ ~ProbedInCycle(m.id)

C1_Witness ==
    /\ CycleOver
    /\ probed_before["m2"] = Some(0) /\ probed_at["m2"] = Some(now) /\ now > 120000
    /\ probed_at["m1"] = Some(now)

(* C2: in the first cycle every enabled target is dispatched; a target that *)
(* has no last-run entry when a cycle begins is dispatched by that cycle.   *)
C2_FirstCycleDispatchesAll ==
    CycleOver =>
        \A m \in Enabled :
            (cycle = 1 \/ probed_before[m.id] = None) =>
                probed_at[m.id] = Some(now) /\ ProbedInCycle(m.id)

C2_Witness ==
    /\ CycleOver /\ cycle = 1
    /\ probed_at["m1"] = Some(now) /\ probed_at["m2"] = Some(now)
    /\ Len(cycle_log) = 4

(* C3: a disabled target is never probed, never gets a last-run entry, is   *)
(* never the target of a record call and has no failure-type counter.       *)
C3_DisabledNeverDispatched ==
    \A m \in Disabled :
        /\ probed_at[m.id] = None
        /\ \A j \in 1..Len(cycle_log) : cycle_log[j][2] # m.id
        /\ \A j \in 1..Len(monitors_to_check) : monitors_to_check[j].id # m.id
        /\ m.id \notin DOMAIN last_run_times
        /\ call.monitor_id # m.id
        /\ completed[m.id] = "none"
        /\ \A k \in DOMAIN registry.failure_counters : k[1] # m.id
        /\ \A k \in DOMAIN recorder.counters :
               k.monitor_id = m.id => k.metric # "http_monitor_failures_total"
        /\ \A k \in DOMAIN recorder.counters : k.monitor_id = m.id => recorder.counters[k] = 0
        /\ \A k \in DOMAIN recorder.histograms :
               k.monitor_id = m.id => recorder.histograms[k].count = 0

C3_Witness ==
    /\ CycleOver /\ cycle >= 2
    /\ "m3" \in DOMAIN registry.monitor_metadata
    /\ << "m1", "timeout", 0 >> \in DOMAIN registry.failure_counters
    /\ << "m2", "http_error", 404 >> \in DOMAIN registry.failure_counters

(* C4: in a cycle the due targets are probed once each, in order, each      *)
(* probe followed by one record call for the same target (record_success    *)
(* iff the outcome is a success) that has returned before the next probe    *)
(* starts; a target that is not due gets neither.                           *)
RecordOps == {"record_success", "record_failure"}

C4_OneProbeOneRecord ==
    pc \in {"check_monitor", "record_metrics", "recording", "elapsed"} =>
        /\ \A j \in 1..Len(cycle_log) :
               LET k == (j + 1) \div 2
               IN  /\ k <= Len(monitors_to_check)
                   /\ cycle_log[j][2] = monitors_to_check[k].id
                   /\ (j % 2 = 1) => cycle_log[j][1] = "probe"
                   /\ (j % 2 = 0) => cycle_log[j][1] \in RecordOps
        /\ \A m \in Configured :
               Cardinality({j \in 1..Len(cycle_log) : cycle_log[j] = << "probe", m.id >>}) <= 1
        /\ (Len(cycle_log) > 0 /\ Len(cycle_log) % 2 = 0) =>
               /\ cycle_log[Len(cycle_log)][2] = result.monitor_id
               /\ (cycle_log[Len(cycle_log)][1] = "record_success") <=> result.success
        /\ pc = "check_monitor" =>
               /\ Len(cycle_log) = 2 * (idx - 1)
               /\ call.op = "idle"
               /\ idx > 1 => completed[monitors_to_check[idx - 1].id]
                                 = cycle_log[Len(cycle_log)][1]
        /\ pc = "elapsed" => Len(cycle_log) = 2 * Len(monitors_to_check)

C4_Witness ==
    /\ CycleOver /\ cycle = 2
    /\ Len(monitors_to_check) = 1
    /\ cycle_log = << << "probe", "m1" >>, << "record_failure", "m1" >> >>
    /\ completed["m2"] = "record_success"

(* C10: a configured target has at most one series per instrument, and it   *)
(* is registered in every map of the registry before its first probe starts *)
Registered(reg, id) ==
    /\ id \in DOMAIN reg.monitor_metadata
    /\ id \in DOMAIN reg.response_time_histograms
    /\ RequestKey(id, "success") \in DOMAIN reg.request_counters
    /\ RequestKey(id, "failure") \in DOMAIN reg.request_counters
    /\ id \in DOMAIN reg.monitor_status_gauges
    /\ id \in DOMAIN reg.last_success_timestamps

SeriesOf(kind, metric, id) ==
    {k \in DOMAIN recorder[kind] : k.metric = metric /\ k.monitor_id = id}

C10_OneBundleRegisteredBeforeProbe ==
    \A m \in Configured :
        /\ Cardinality(SeriesOf("histograms", "http_monitor_response_time_seconds", m.id)) <= 1
        /\ Cardinality(SeriesOf("counters", "http_monitor_requests_total", m.id)) <= 2
        /\ Cardinality(SeriesOf("gauges", "http_monitor_up", m.id)) <= 1
        /\ Cardinality(SeriesOf("gauges", "http_monitor_last_success_timestamp", m.id)) <= 1
        /\ IsSome(probed_at[m.id]) =>
               /\ Registered(registry, m.id)
               /\ Cardinality(SeriesOf("gauges", "http_monitor_up", m.id)) = 1
        /\ (pc = "check_monitor" /\ monitors_to_check[idx].id = m.id) =>
               Registered(registry, m.id)

C10_Witness ==
    /\ pc = "record_metrics" /\ cycle = 1
    /\ result.monitor_id = "m2"
    /\ Registered(registry, "m2")
    /\ Cardinality(SeriesOf("gauges", "http_monitor_up", "m2")) = 1


(* C16: check_monitor always returns a result to the scheduler: success    *)
(* with the status code and no error message for a status in 200..299,     *)
(* failure with the status code for any other status, failure with no      *)
(* status code and an error message for a transport error; a success       *)
(* always has a status code.                                               *)
C16_CheckMonitorResult ==
    /\ pc = "check_monitor" => ENABLED CheckMonitor
    /\ pc \in {"record_metrics", "recording"} =>
           /\ result.monitor_id = monitors_to_check[idx].id
           /\ result.response_time_ms = answered.elapsed
           /\ (answered.ok /\ answered.status \in 200..299) =>
                  /\ result.success
                  /\ result.status_code = Some(answered.status)
                  /\ result.error_message = None
           /\ (answered.ok /\ answered.status \notin 200..299) =>
                  /\ ~result.success
                  /\ result.status_code = Some(answered.status)
           /\ ~answered.ok =>
                  /\ ~result.success
                  /\ result.status_code = None
                  /\ result.error_message = Some(answered.text)
           /\ result.success => IsSome(result.status_code)

C16_Witness ==
    /\ pc = "record_metrics" /\ cycle = 2
    /\ answered.ok /\ answered.status = 404
    /\ ~result.success /\ result.status_code = Some(404)
    /\ completed["m2"] = "record_failure"

(* C17: a failed probe is recorded under exactly one error type: timeout   *)
(* if the text mentions a timeout, else dns_error if it mentions DNS, else *)
(* http_error if there is a status code, else connection_error.            *)
ReferenceErrorType(res) ==
    IF MessageContains(res.error_message, "timeout") THEN "timeout"
    ELSE IF MessageContains(res.error_message, "dns") THEN "dns_error"
    ELSE IF IsSome(res.status_code) THEN "http_error"
    ELSE "connection_error"

FailureTypeSeries(rec, id) ==
    {k \in DOMAIN rec.counters :
        k.metric = "http_monitor_failures_total" /\ k.monitor_id = id}

C17_ClassificationOrder ==
    (pc = "recording" /\ ~result.success) =>
        /\ call.op = "record_failure"
        /\ call.error_type = ReferenceErrorType(result)
        /\ call.status_code = result.status_code
        /\ call.pc = "done" =>
               LET id == result.monitor_id
                   fs == FailureSeries(id, registry.monitor_metadata[id],
                                       ReferenceErrorType(result), result.status_code)
               IN  /\ fs \in DOMAIN recorder.counters
                   /\ recorder.counters[fs] = ValueOr0(pre.recorder.counters, fs) + 1
                   /\ \A k \in FailureTypeSeries(recorder, id) \ {fs} :
                          /\ k \in DOMAIN pre.recorder.counters
                          /\ recorder.counters[k] = pre.recorder.counters[k]

C17_Witness ==
    /\ pc = "recording" /\ call.pc = "done"
    /\ answered.text = "dns error: timeout"
    /\ call.error_type = "timeout"
    /\ Cardinality(FailureTypeSeries(recorder, result.monitor_id)) = 2

(* C18: a failed or slow probe of one target changes no instrument of      *)
(* another target and changes neither the cycles nor the times at which    *)
(* another target is dispatched, compared with the run in which the probe  *)
(* succeeded at once.  A probe lasts at most the 30 s of the client        *)
(* timeout, so the run in which the probes of the other targets succeed at *)
(* once has no cycle of 60 s or more: it starts cycle k at (k - 1) * 60 s  *)
(* and dispatches a target of interval i in the cycles k with (k - 1)      *)
(* divisible by i.                                                         *)
OthersUntouched ==
    \A kind \in {"counters", "gauges", "histograms"} :
        \A k \in DOMAIN recorder[kind] :
            (pc # "recording" \/ k.monitor_id # call.monitor_id) =>
                /\ k \in DOMAIN recorder'[kind]
                /\ recorder'[kind][k] = recorder[kind][k]

DispatchedOnSchedule ==
    /\ now = (cycle - 1) * Cadence
    /\ \A m \in Enabled : ProbedInCycle(m.id) <=> (cycle - 1) % m.interval = 0

C18_OtherTargetsUnaffected ==
    /\ [](CycleOver => DispatchedOnSchedule)
    /\ [][OthersUntouched]_vars

(* C18 as amended: a record call for one target writes no instrument of    *)
(* another target, and as long as the probes of every cycle together took  *)
(* less than the cadence, the cycles and the times at which a target is    *)
(* dispatched are those of the run in which every probe succeeds at once.  *)
C18_OtherTargetsUnaffectedWithinCadence ==
    /\ []((CycleOver /\ overruns = 0) => DispatchedOnSchedule)
    /\ [][OthersUntouched]_vars

(* The third cycle is on time and probes m2 although m1 timed out before *)
C18_Witness ==
    /\ CycleOver /\ cycle = 3 /\ overruns = 0 /\ now = 120000
    /\ ProbedInCycle("m2")
    /\ << "m1", "timeout", 0 >> \in DOMAIN registry.failure_counters
    /\ completed["m2"] = "record_success"

(* C19: the scheduling loop is never ended by a probe failure: whatever    *)
(* the outcomes of the probes, every cycle is followed by a next one, up   *)
(* to the last cycle the bound allows, and every enabled target has been   *)
(* dispatched by the last of these cycles in which it was due.             *)
LastDueCycle(m) == MaxCycles - ((MaxCycles - 1) % m.interval)

C19_LoopNeverTerminates ==
    <>(/\ cycle = MaxCycles /\ pc = "loop"
       /\ \A m \in Enabled :
              /\ IsSome(probed_at[m.id])
              /\ UnwrapOr(probed_at[m.id], 0) >= (LastDueCycle(m) - 1) * Cadence)

(* A second cycle has started after a cycle in which both probes failed *)
C19_Witness ==
    /\ cycle = 2 /\ pc = "check_due"
    /\ completed["m1"] = "record_failure" /\ completed["m2"] = "record_failure"

(* C20: after a cycle whose probing took r < 60 s the scheduler sleeps     *)
(* 60 s - r, the next cycle starts at the end of the sleep, one cadence    *)
(* after the start of the cycle, and as long as every cycle took less than *)
(* 60 s cycle k starts at (k - 1) * 60 s.                                  *)
C20_SleepCompensatesRuntime ==
    /\ [][(pc = "elapsed" /\ clock - loop_start < Cadence) =>
              /\ clock' - clock = Cadence - (clock - loop_start)
              /\ clock' = loop_start + Cadence
              /\ pc' = "loop"]_vars
    /\ [][(pc = "loop" /\ cycle >= 1 /\ clock = loop_start + Cadence) =>
              loop_start' = loop_start + Cadence]_vars
    /\ []((overruns = 0 /\ cycle >= 1) => loop_start = (cycle - 1) * Cadence)

(* The second cycle spent 30 s on a probe that timed out, slept the other  *)
(* 30 s and the third cycle starts at 120 s                                *)
C20_Witness ==
    /\ pc = "check_due" /\ cycle = 3 /\ loop_start = 120000
    /\ overruns = 0
    /\ answered.elapsed = 30000 /\ result.monitor_id = "m1"

(* How far after its place on the 60 s grid the current cycle started *)
Lateness == loop_start - (cycle - 1) * Cadence

(* C21: dispatch times do not accumulate drift: the n-th dispatch of a     *)
(* target after its first one, at t1, happens no later than one tick after *)
(* t1 + n * I, and the lateness does not grow with n.  Every target is     *)
(* first dispatched by cycle 1, at 0; cycle k + 1 holds the k-th following *)
(* dispatch of a target of interval 1.  Checked under DriftSpec.           *)
C21_NoDriftAccumulation ==
    /\ [](\A m \in Enabled :
             (CycleOver /\ ProbedInCycle(m.id)) => now <= (cycle - 1) * Cadence + Cadence)
    /\ [][(cycle >= 2 /\ cycle' = cycle + 1) =>
              (loop_start' - cycle * Cadence) <= Lateness]_vars

(* C22: no state is created for a disabled target: no schedule entry, no  *)
(* entry in any map of the registry (histogram, counters, gauges,         *)
(* metadata) and no series in the recorder                                *)
InRegistry(reg, id) ==
    \/ id \in DOMAIN reg.monitor_metadata
    \/ id \in DOMAIN reg.response_time_histograms
    \/ \E k \in DOMAIN reg.request_counters : k[1] = id
    \/ \E k \in DOMAIN reg.failure_counters : k[1] = id
    \/ id \in DOMAIN reg.monitor_status_gauges
    \/ id \in DOMAIN reg.last_success_timestamps

ExposedSeries(id) ==
    {k \in DOMAIN recorder.counters \cup DOMAIN recorder.gauges
               \cup DOMAIN recorder.histograms : k.monitor_id = id}

C22_DisabledHasNoState ==
    \A m \in Disabled :
        /\ m.id \notin DOMAIN last_run_times
        /\ probed_at[m.id] = None
        /\ ~InRegistry(registry, m.id)
        /\ ExposedSeries(m.id) = {}

(* C23: Settings::load and Settings::from_str return an error value and    *)
(* never panic; load returns NotFound when the path does not exist and     *)
(* InvalidData when the content cannot be read or parsed; a monitor entry  *)
(* lacking a required field makes the whole parse fail; on success the     *)
(* monitors are those of the file, in file order, with their enabled flags *)
(* as written.  Checked under SettingsSpec.                                *)
FileTables == UnwrapOr(file.content.monitors, << >>)
Parses ==
    /\ file.readable /\ file.content.well_formed /\ IsSome(file.content.monitors)
    /\ \A i \in 1..Len(FileTables) :
           \A f \in {"id", "name", "url", "interval", "enabled"} : IsSome(FileTables[i][f])
    /\ \A i \in 1..Len(FileTables) : FileTables[i].interval \subseteq Nat

C23_LoadReportsErrors ==
    pc \in {"loaded", "parsed"} =>
        /\ ~loaded.panicked
        /\ (pc = "loaded" /\ ~file.exists) => (~loaded.is_ok /\ loaded.kind = "NotFound")
        /\ (file.exists /\ ~Parses) => (~loaded.is_ok /\ loaded.kind = "InvalidData")
        /\ Parses =>
               /\ loaded.is_ok
               /\ Len(loaded.value.monitors) = Len(FileTables)
               /\ \A i \in 1..Len(FileTables) :
                      /\ Some(loaded.value.monitors[i].id) = FileTables[i].id
                      /\ Some(loaded.value.monitors[i].name) = FileTables[i].name
                      /\ Some(loaded.value.monitors[i].url) = FileTables[i].url
                      /\ Some(loaded.value.monitors[i].interval) = FileTables[i].interval
                      /\ Some(loaded.value.monitors[i].enabled) = FileTables[i].enabled

(* A file with a disabled monitor before an enabled one is loaded as written *)
C23_Witness ==
    /\ pc = "loaded" /\ loaded.is_ok
    /\ Len(loaded.value.monitors) = 2
    /\ loaded.value.monitors[1].id = "m2" /\ ~loaded.value.monitors[1].enabled
    /\ loaded.value.monitors[2].id = "m1" /\ loaded.value.monitors[2].enabled

(* C24: the due comparison takes the interval in seconds, as the settings *)
(* document it: a target with interval n that has run before is due again *)
(* in a cycle whose now is n seconds or more after its last-run timestamp *)
MsPerSecond == 1000

C24_DueAfterIntervalSeconds ==
    [][pc = "check_due" =>
          \A m \in Enabled :
              (/\ m.id \in DOMAIN last_run_times
               /\ clock - last_run_times[m.id] >= m.interval * MsPerSecond)
                  => \E j \in 1..Len(monitors_to_check') : monitors_to_check'[j].id = m.id]_vars

(* C25: when the request of a due target is started its last-run          *)
(* timestamp is already the now of the cycle; no step of probing or        *)
(* recording changes a last-run timestamp; and a target that has run       *)
(* before is selected only by a cycle whose now is at least its last-run   *)
(* timestamp plus its interval, however long its probe and the cycle took  *)
C25_LastRunSetBeforeRequest ==
    /\ [](pc \in {"check_monitor", "record_metrics", "recording"} =>
             \A j \in 1..Len(monitors_to_check) :
                 /\ monitors_to_check[j].id \in DOMAIN last_run_times
                 /\ last_run_times[monitors_to_check[j].id] = now)
    /\ [][pc # "check_due" => last_run_times' = last_run_times]_vars
    /\ [][pc = "check_due" =>
              \A j \in 1..Len(monitors_to_check') :
                  LET m == monitors_to_check'[j]
                  IN  m.id \in DOMAIN last_run_times =>
                          now' >= last_run_times[m.id] + IntervalDuration(m)]_vars

(* After a cycle of two 30 s timeouts, m1 is selected 60.1 s after its   *)
(* last-run timestamp and stamped again, m2 keeps its timestamp          *)
C25_Witness ==
    /\ pc = "check_monitor" /\ cycle = 2 /\ overruns = 1
    /\ Len(monitors_to_check) = 1 /\ monitors_to_check[1].id = "m1"
    /\ last_run_times["m1"] = now /\ now = Cadence + MinSleep
    /\ last_run_times["m2"] = 0

(* C26: after a cycle whose work took 60 s or more the scheduler sleeps    *)
(* exactly the minimum sleep of 100 ms, neither nothing nor a further full *)
(* cadence, and the next cycle starts when that sleep ends.  Checked under *)
(* DriftSpec.                                                              *)
C26_OverrunSleepsMinimum ==
    /\ [][(pc = "elapsed" /\ clock - loop_start >= Cadence) =>
              (clock' = clock + MinSleep /\ pc' = "loop" /\ cycle' = cycle)]_vars
    /\ [][(pc = "loop" /\ cycle >= 1) =>
              (cycle' = cycle + 1 /\ loop_start' = clock /\ clock' = clock)]_vars

(* The first cycle took 60.04 s, the second one started 100 ms later *)
C26_Witness ==
    /\ pc = "check_due" /\ cycle = 2
    /\ overruns = 1
    /\ loop_start = 60040 + MinSleep

(* C29: last_run_times is empty when the worker is constructed; it holds   *)
(* entries for enabled configured targets only; an entry is never lost and *)
(* its timestamp never moves back; an entry is added for a target only by  *)
(* the cycle that first dispatches it; the map is changed only by the due  *)
(* detection of a cycle, which sets the entry of each due target to the    *)
(* now of the cycle, never by probing, recording or the exposition reader. *)
(* Checked under ReaderSpec.                                               *)
Constructed == pc = "loop" /\ cycle = 0
Selected(lst, id) == \E j \in 1..Len(lst) : lst[j].id = id

C29_ScheduleStateOwnedByDueDetection ==
    /\ [](Constructed => last_run_times = EmptyMap)
    /\ [](DOMAIN last_run_times \subseteq {m.id : m \in Enabled})
    /\ [][\A id \in DOMAIN last_run_times :
              /\ id \in DOMAIN last_run_times'
              /\ last_run_times'[id] >= last_run_times[id]]_vars
    /\ [][\A id \in DOMAIN last_run_times' \ DOMAIN last_run_times :
              /\ probed_at[id] = None
              /\ Selected(monitors_to_check', id)]_vars
    /\ [][last_run_times' # last_run_times =>
              /\ pc = "check_due" /\ pc' \in {"check_monitor", "elapsed"}
              /\ rendered' = rendered
              /\ \A id \in DOMAIN last_run_times' :
                     IF Selected(monitors_to_check', id)
                     THEN last_run_times'[id] = now'
                     ELSE id \in DOMAIN last_run_times
                              /\ last_run_times'[id] = last_run_times[id]]_vars

(* Cycle 2 has moved the entry of m1 forward and kept that of m2, probes *)
(* were recorded and the reader has read                                 *)
C29_Witness ==
    /\ CycleOver /\ cycle = 2
    /\ last_run_times["m1"] = now /\ now >= Cadence
    /\ last_run_times["m2"] = 0
    /\ "m3" \notin DOMAIN last_run_times
    /\ rendered # NothingRendered

(* C30: the recorder is installed before any monitor is registered and     *)
(* before any record call: the metrics server future, which installs it,   *)
(* has been polled when the worker future is polled; the registry is only  *)
(* written and a call only made while a recorder is installed; and no      *)
(* handle of the registry is one created without a recorder.  Checked      *)
(* under StartupSpec.                                                      *)
Position(name) ==
    IF \E i \in 1..Len(joined) : joined[i] = name
    THEN CHOOSE i \in 1..Len(joined) : joined[i] = name
    ELSE Len(JoinOrder) + 1

Handles(reg) ==
    UNION { {reg[map][k] : k \in DOMAIN reg[map]} :
              map \in {"response_time_histograms", "request_counters", "failure_counters",
                        "monitor_status_gauges", "last_success_timestamps"} }

C30_RecorderInstalledFirst ==
    /\ []((\E i \in 1..Len(joined) : joined[i] = "start_worker") =>
              Position("start_metrics_server") < Position("start_worker"))
    /\ []((registry # NewRegistry \/ call.op # "idle") => recorder.installed)
    /\ [](NoopHandle \notin Handles(registry))
    /\ [][registry' # registry => recorder.installed /\ recorder'.installed]_vars

(* All three futures were polled, the monitors are registered with real *)
(* handles and the first cycle has recorded its probes                  *)
C30_Witness ==
    /\ joined = << "start_main_server", "start_metrics_server", "start_worker" >>
    /\ recorder.installed
    /\ Registered(registry, "m1") /\ Registered(registry, "m3")
    /\ Handles(registry) # {}
    /\ CycleOver /\ cycle = 1
    /\ completed["m1"] \in RecordOps /\ completed["m2"] \in RecordOps

-----------------------------------------------------------------------------
(* Properties of the registry, checked under RegistrySpec *)

CallDone(op) == call.op = op /\ call.pc = "done"
WasRegistered == Registered(pre.registry, call.monitor_id)
MetaBefore == pre.registry.monitor_metadata[call.monitor_id]

(* One more observation of the latency ms, in millionths of a second *)
ObservedOnce(h0, h1, ms) ==
    /\ h1.count = h0.count + 1
    /\ h1.sum = h0.sum + ms * 1000
    /\ \A b \in Buckets : h1.buckets[b] = h0.buckets[b] + (IF ms * 1000 <= b THEN 1 ELSE 0)

(* C5: record_success on a registered target adds one observation of the   *)
(* latency to its histogram, adds 1 to its success counter, sets its up    *)
(* gauge to 1 and its last-success gauge to the wall-clock time in seconds *)
C5_RecordSuccessEffect ==
    (CallDone("record_success") /\ WasRegistered) =>
        LET id == call.monitor_id
            hs == HistogramSeries(id, MetaBefore)
            cs == RequestSeries(id, MetaBefore, "success")
        IN  /\ ObservedOnce(pre.recorder.histograms[hs], recorder.histograms[hs],
                            call.response_time_ms)
            /\ recorder.counters[cs] = pre.recorder.counters[cs] + 1
            /\ recorder.gauges[UpSeries(id, MetaBefore)] = 1
            /\ recorder.gauges[LastSuccessSeries(id, MetaBefore)]
                   = (StartWallMs + clock) \div 1000

C5_Witness ==
    /\ CallDone("record_success") /\ WasRegistered
    /\ call.response_time_ms = 100
    /\ pre.recorder.histograms[HistogramSeries(call.monitor_id, MetaBefore)].count = 1
    /\ pre.recorder.gauges[UpSeries(call.monitor_id, MetaBefore)] = 0
    /\ recorder.gauges[LastSuccessSeries(call.monitor_id, MetaBefore)] = 1

(* C6: record_failure on a registered target adds one observation to its   *)
(* histogram, adds 1 to its failure counter, adds 1 to the failure-type    *)
(* counter labelled with its error type and status code, creating it at    *)
(* the first occurrence, and sets its up gauge to 0.                       *)
C6_RecordFailureEffect ==
    (CallDone("record_failure") /\ WasRegistered) =>
        LET id == call.monitor_id
            hs == HistogramSeries(id, MetaBefore)
            cs == RequestSeries(id, MetaBefore, "failure")
            fs == Series("http_monitor_failures_total", id, MetaBefore, "", call.error_type,
                         IF call.status_code = None THEN "none"
                         ELSE ToString(UnwrapOr(call.status_code, 0)))
        IN  /\ ObservedOnce(pre.recorder.histograms[hs], recorder.histograms[hs],
                            call.response_time_ms)
            /\ recorder.counters[cs] = pre.recorder.counters[cs] + 1
            /\ fs \in DOMAIN recorder.counters
            /\ recorder.counters[fs] = ValueOr0(pre.recorder.counters, fs) + 1
            /\ recorder.gauges[UpSeries(id, MetaBefore)] = 0

(* C7: a record call for an id that was never registered changes nothing   *)
(* and runs to its end.                                                    *)
CallStep ==
    \/ RecordSuccessHistogram \/ RecordSuccessCounter \/ RecordSuccessGauge
    \/ RecordSuccessTimestamp \/ RecordFailureHistogram \/ RecordFailureCounter
    \/ RecordFailureType \/ RecordFailureGauge

C7_UnregisteredRecordIsNoOp ==
    (call.op \in RecordOps /\ call.monitor_id \notin DOMAIN pre.registry.monitor_metadata) =>
        /\ registry = pre.registry
        /\ recorder = pre.recorder
        /\ call.pc # "done" => ENABLED CallStep

C7_Witness ==
    /\ CallDone("record_failure")
    /\ call.monitor_id = "m2" /\ "m2" \notin DOMAIN registry.monitor_metadata
    /\ completed["m2"] = "dropped"
    /\ completed["m1"] = "record_success"

(* C8: a read of the up gauge of a registered target after a completed     *)
(* record call returns 1 if the record call that completed last for the    *)
(* target was record_success and 0 if it was record_failure.               *)
UpValue(op) == IF op = "record_success" THEN 1 ELSE 0
UpRead(view, id) == view.gauges[UpSeries(id, registry.monitor_metadata[id])]
InProgress(id) == call.op \in RecordOps /\ call.monitor_id = id /\ call.pc # "done"
IsRead == rendered' # rendered

C8_ReadReturnsLastCompleted ==
    [][IsRead =>
          \A id \in ClientIds :
              (id \in DOMAIN registry.monitor_metadata /\ completed[id] \in RecordOps) =>
                  UpRead(rendered', id) = UpValue(completed[id])]_vars

(* C8 as amended: such a read, made while no record call for the target is *)
(* in progress, returns the value of the record call that completed last;  *)
(* made while a record call for the target is in progress, it returns that *)
(* value or the value the call in progress sets.                           *)
C8_ReadReturnsLastCompletedOrCurrent ==
    [][IsRead =>
          \A id \in ClientIds :
              (id \in DOMAIN registry.monitor_metadata /\ completed[id] \in RecordOps) =>
                  IF InProgress(id)
                  THEN UpRead(rendered', id) \in {UpValue(completed[id]), UpValue(call.op)}
                  ELSE UpRead(rendered', id) = UpValue(completed[id])]_vars

C8_Witness ==
    /\ completed["m1"] = "record_failure"
    /\ call.op = "record_success" /\ call.monitor_id = "m1" /\ call.pc = "timestamp"
    /\ rendered = [counters |-> recorder.counters, gauges |-> recorder.gauges,
                   histograms |-> recorder.histograms]
    /\ UpRead(rendered, "m1") = 1

(* C9: register_monitor for a target that is already registered, with the  *)
(* same metadata, leaves every recorded value and every handle as it was,  *)
(* and a later record adds to the values recorded before.                  *)
C9_ReRegisterKeepsValues ==
    /\ (CallDone("register_monitor") /\ WasRegistered) =>
           /\ recorder = pre.recorder
           /\ registry = pre.registry
    /\ (call.op \in RecordOps /\ call.pc = "done" /\ WasRegistered) =>
           LET status == IF call.op = "record_success" THEN "success" ELSE "failure"
               cs == RequestSeries(call.monitor_id, MetaBefore, status)
               hs == HistogramSeries(call.monitor_id, MetaBefore)
           IN  /\ recorder.counters[cs] = pre.recorder.counters[cs] + 1
               /\ recorder.histograms[hs].count = pre.recorder.histograms[hs].count + 1

C9_Witness ==
    /\ CallDone("register_monitor") /\ WasRegistered
    /\ call.monitor_id = "m1"
    /\ recorder.counters[RequestSeries("m1", MetaBefore, "failure")] = 1
    /\ recorder.histograms[HistogramSeries("m1", MetaBefore)].count = 1
    /\ << "m1", "http_error", 404 >> \in DOMAIN registry.failure_counters


-----------------------------------------------------------------------------
(* Properties of concurrent recording, checked under ConcurrentSpec *)

RECURSIVE BagSum(_, _)
BagSum(bag, S) ==
    IF S = {} THEN 0
    ELSE LET d == CHOOSE x \in S : TRUE IN bag[d] + BagSum(bag, S \ {d})

(* The number of returned record calls op for id, and the threads that are *)
(* in the middle of one                                                    *)
NumReturned(id, ops) ==
    BagSum(recorded, {d \in DOMAIN recorded : d.monitor_id = id /\ d.op \in ops})
InFlight(id, ops) == {t \in Threads : threads[t].monitor_id = id /\ threads[t].op \in ops}
AllReturned == pc = "threads" /\ \A t \in Threads : threads[t].op = "idle"

(* C11: once all N record calls that threads made for a registered target, *)
(* concurrently with each other and with readers, have returned, its       *)
(* success counter plus its failure counter is N and its histogram count   *)
(* is N.                                                                   *)
C11_NoLostUpdate ==
    AllReturned =>
        /\ calls = BagSum(recorded, DOMAIN recorded)
        /\ \A id \in ClientIds :
               LET meta == registry.monitor_metadata[id]
                   n == NumReturned(id, RecordOps)
               IN  /\ recorder.counters[RequestSeries(id, meta, "success")]
                        + recorder.counters[RequestSeries(id, meta, "failure")] = n
                   /\ recorder.counters[RequestSeries(id, meta, "success")]
                        = NumReturned(id, {"record_success"})
                   /\ recorder.histograms[HistogramSeries(id, meta)].count = n

(* Three calls have returned; the success returned last although the      *)
(* failure set the gauge after it, so the two overlapped; a reader has run *)
C11_Witness ==
    /\ AllReturned /\ calls = 3
    /\ NumReturned("m1", RecordOps) = 3
    /\ completed["m1"] = "record_success"
    /\ recorder.gauges[UpSeries("m1", registry.monitor_metadata["m1"])] = 0
    /\ rendered # NothingRendered

(* C28: a reader that reads repeatedly sees the recorded outcomes of a      *)
(* target in the order they were recorded: from one read to the next no    *)
(* counter and no histogram count or bucket decreases, and the up gauge    *)
(* read is the value of the latest record call that has set it, which is   *)
(* the call in progress or the one that completed last, never an earlier   *)
(* one.                                                                    *)
LatestUp(id) ==
    IF call.monitor_id = id /\ call.op = "record_success" /\ call.pc = "timestamp"
            /\ id \in DOMAIN pre.registry.monitor_metadata
    THEN 1
    ELSE IF completed[id] \in RecordOps THEN UpValue(completed[id]) ELSE 0

C28_ReaderSeesRecordOrder ==
    [][IsRead =>
          /\ \A k \in DOMAIN rendered.counters :
                 /\ k \in DOMAIN rendered'.counters
                 /\ rendered'.counters[k] >= rendered.counters[k]
          /\ \A k \in DOMAIN rendered.histograms :
                 /\ k \in DOMAIN rendered'.histograms
                 /\ rendered'.histograms[k].count >= rendered.histograms[k].count
                 /\ \A b \in Buckets :
                        rendered'.histograms[k].buckets[b] >= rendered.histograms[k].buckets[b]
          /\ \A id \in ClientIds :
                 id \in DOMAIN registry.monitor_metadata =>
                     UpRead(rendered', id) = LatestUp(id)]_vars

(* A read made after a success and then a failure of m1 have returned *)
C28_Witness ==
    /\ completed["m1"] = "record_failure" /\ call.op = "idle"
    /\ NumReturned("m1", {"record_success"}) = 1
    /\ NumReturned("m1", {"record_failure"}) = 1
    /\ rendered = [counters |-> recorder.counters, gauges |-> recorder.gauges,
                   histograms |-> recorder.histograms]
    /\ UpRead(rendered, "m1") = 0
    /\ rendered.counters[RequestSeries("m1", registry.monitor_metadata["m1"], "success")] = 1
    /\ rendered.counters[RequestSeries("m1", registry.monitor_metadata["m1"], "failure")] = 1

(* C27: when record calls of two callers for the same registered target    *)
(* overlap, a record_success and a record_failure, the up gauge holds,     *)
(* once they have completed, the value of the call that completed last.    *)
(* Checked under ConcurrentSpec.                                           *)
C27_GaugeOfLastCompleted ==
    AllReturned =>
        \A id \in ConcurrentIds :
            completed[id] \in RecordOps =>
                recorder.gauges[UpSeries(id, registry.monitor_metadata[id])]
                    = (IF completed[id] = "record_success" THEN 1 ELSE 0)

(* C12: what a reader renders while record calls are in progress: a        *)
(* counter shows the increments of the calls that returned and of some of  *)
(* the calls in progress, never another number; the up gauge shows its     *)
(* initial value 0 or the value a returned or in-progress call sets; the   *)
(* last-success gauge shows 0 or a wall-clock time a record_success set.   *)
Shown(n, id, ops) ==
    NumReturned(id, ops) <= n /\ n <= NumReturned(id, ops) + Cardinality(InFlight(id, ops))

C12_NoPartialInstrument ==
    [][(pc = "threads" /\ IsRead) =>
          \A id \in ClientIds :
              LET meta == registry.monitor_metadata[id]
                  view == rendered'
                  started(ops) == NumReturned(id, ops) + Cardinality(InFlight(id, ops))
              IN  /\ Shown(view.counters[RequestSeries(id, meta, "success")], id,
                           {"record_success"})
                  /\ Shown(view.counters[RequestSeries(id, meta, "failure")], id,
                           {"record_failure"})
                  /\ Shown(view.histograms[HistogramSeries(id, meta)].count, id, RecordOps)
                  /\ view.gauges[UpSeries(id, meta)] \in {0, 1}
                  /\ view.gauges[UpSeries(id, meta)] = 1 => started({"record_success"}) > 0
                  /\ LET ts == view.gauges[LastSuccessSeries(id, meta)]
                     IN  \/ ts = 0
                         \/ /\ started({"record_success"}) > 0
                            /\ \E t \in 0..clock : ts = (StartWallMs + t) \div 1000]_vars

(* A reader ran after one call had returned, while one thread was between *)
(* its counter and its gauge and the other had observed but not counted   *)
C12_Witness ==
    /\ pc = "threads"
    /\ threads["t1"].op = "record_success" /\ threads["t1"].pc = "gauge"
    /\ threads["t2"].op = "record_success" /\ threads["t2"].pc = "counter"
    /\ NumReturned("m1", RecordOps) = 1
    /\ rendered = [counters |-> recorder.counters, gauges |-> recorder.gauges,
                   histograms |-> recorder.histograms]
    /\ rendered.histograms[HistogramSeries("m1", registry.monitor_metadata["m1"])].count = 3


-----------------------------------------------------------------------------
(* Properties of the histogram and of the failure-type counters *)

(* The record call in progress has made its observation and not returned *)
Observing(id) ==
    /\ call.op \in RecordOps /\ call.monitor_id = id
    /\ call.pc \notin {"histogram", "done"}
    /\ id \in DOMAIN pre.registry.monitor_metadata

(* C13: for every registered target, in every reachable state, the bucket  *)
(* counts do not decrease with the bound, no bucket count or total ever    *)
(* decreases, and the +Inf bucket (the count) is the number of             *)
(* observations recorded for the target.  Checked under RegistrySpec.      *)
C13_HistogramCumulative ==
    /\ [](\A id \in ClientIds :
             id \in DOMAIN registry.monitor_metadata =>
                 LET h == recorder.histograms[HistogramSeries(id, registry.monitor_metadata[id])]
                 IN  /\ \A b1, b2 \in Buckets : b1 <= b2 => h.buckets[b1] <= h.buckets[b2]
                     /\ \A b \in Buckets : h.buckets[b] <= h.count
                     /\ h.count = NumReturned(id, RecordOps)
                                      + (IF Observing(id) THEN 1 ELSE 0))
    /\ [][\A k \in DOMAIN recorder.histograms :
              /\ k \in DOMAIN recorder'.histograms
              /\ recorder'.histograms[k].count >= recorder.histograms[k].count
              /\ \A b \in Buckets :
                     recorder'.histograms[k].buckets[b] >= recorder.histograms[k].buckets[b]]_vars

C13_Witness ==
    /\ "m1" \in DOMAIN registry.monitor_metadata
    /\ LET h == recorder.histograms[HistogramSeries("m1", registry.monitor_metadata["m1"])]
       IN  /\ h.count = 2
           /\ h.buckets[50000] = 0 /\ h.buckets[100000] = 1 /\ h.buckets[5000000] = 2
    /\ Observing("m1")

(* C14: for the latencies recorded for a target, in whole milliseconds,    *)
(* and every bound b, the bucket le = b counts the latencies <= b (one on  *)
(* the bound included, 0 ms in every bucket), the count is the number of   *)
(* records and the sum is the sum of the latencies.  Checked under         *)
(* HistogramSpec.                                                          *)
BoundsMs == {50, 100, 200, 500, 1000, 2000, 5000, 10000, 20000, 30000}

RECURSIVE LatencySum(_, _)
LatencySum(bag, S) ==
    IF S = {} THEN 0
    ELSE LET d == CHOOSE x \in S : TRUE
         IN  bag[d] * d.response_time_ms + LatencySum(bag, S \ {d})

C15_FailureTypeCounts ==
    (call.pc \in {"idle", "done"}) =>
        \A id \in ClientIds :
            id \in DOMAIN registry.monitor_metadata =>
                \A f \in ClientFailures :
                    LET fs == Series("http_monitor_failures_total", id,
                                     registry.monitor_metadata[id], "", f[1],
                                     IF f[2] = None THEN "none"
                                     ELSE ToString(UnwrapOr(f[2], 0)))
                    IN  ValueOr0(recorder.counters, fs)
                          = BagSum(recorded,
                                   {d \in DOMAIN recorded :
                                       /\ d.monitor_id = id /\ d.op = "record_failure"
                                       /\ d.error_type = f[1] /\ d.status_code = f[2]})

-----------------------------------------------------------------------------
(* Sums over the instruments of a target, checked under RegistrySpec *)

NoRecordInProgress(id) == ~(call.op \in RecordOps /\ call.monitor_id = id /\ call.pc # "done")

(* C32: for a registered target, whenever no record call for it is in      *)
(* progress, the observation count of its histogram is its success counter *)
(* plus its failure counter, and its failure counter is the sum of all its *)
(* failure-type counters.                                                  *)
C32_CountsAddUp ==
    \A id \in ClientIds :
        (Registered(registry, id) /\ NoRecordInProgress(id)) =>
            LET meta == registry.monitor_metadata[id]
                failures == recorder.counters[RequestSeries(id, meta, "failure")]
            IN  /\ recorder.histograms[HistogramSeries(id, meta)].count
                       = recorder.counters[RequestSeries(id, meta, "success")] + failures
                /\ failures = BagSum(recorder.counters, FailureTypeSeries(recorder, id))

(* Two failures of different types have been recorded for m1 *)
C32_Witness ==
    /\ call.op = "idle"
    /\ Registered(registry, "m1")
    /\ recorder.counters[RequestSeries("m1", registry.monitor_metadata["m1"], "failure")] = 2
    /\ Cardinality(FailureTypeSeries(recorder, "m1")) = 2

(* What a read made during a record call for a registered target shows of *)
(* the call: the increments of the histogram count, of the request        *)
(* counter and of the failure-type counter of the call over their values  *)
(* when the call began, and the up gauge                                  *)
CounterValue(rec, key) == IF key \in DOMAIN rec.counters THEN rec.counters[key] ELSE 0
Recording == call.op \in RecordOps /\ call.pc # "done" /\ WasRegistered
CallStatus == IF call.op = "record_success" THEN "success" ELSE "failure"
CallTypeSeries == FailureSeries(call.monitor_id, MetaBefore, call.error_type, call.status_code)
HistogramShown(view) ==
    view.histograms[HistogramSeries(call.monitor_id, MetaBefore)].count
        - pre.recorder.histograms[HistogramSeries(call.monitor_id, MetaBefore)].count
RequestShown(view) ==
    view.counters[RequestSeries(call.monitor_id, MetaBefore, CallStatus)]
        - pre.recorder.counters[RequestSeries(call.monitor_id, MetaBefore, CallStatus)]
TypeShown(view) == CounterValue(view, CallTypeSeries) - CounterValue(pre.recorder, CallTypeSeries)
UpBefore == pre.recorder.gauges[UpSeries(call.monitor_id, MetaBefore)]
UpShown(view) == view.gauges[UpSeries(call.monitor_id, MetaBefore)]

(* C33: a read made while a record call is in progress shows the effects  *)
(* of the call on all instruments of the target or on none: never the     *)
(* histogram count incremented with the request counter, the failure-type *)
(* counter or the up gauge still at its old value.                        *)
C33_ReadSeesAllOrNone ==
    [][(IsRead /\ Recording) =>
          LET view == rendered'
          IN  \/ /\ HistogramShown(view) = 0 /\ RequestShown(view) = 0
                 /\ TypeShown(view) = 0 /\ UpShown(view) = UpBefore
              \/ /\ HistogramShown(view) = 1 /\ RequestShown(view) = 1
                 /\ call.op = "record_failure" => TypeShown(view) = 1
                 /\ UpShown(view) = UpValue(call.op)]_vars

(* C33 as amended: such a read shows, of each instrument of the target   *)
(* separately, its value from before the call or its value after the     *)
(* call has updated it, never anything else; it can show the histogram   *)
(* count incremented with the request counter, the failure-type counter  *)
(* or the up gauge still at its old value.                               *)
C33_ReadSeesEachInstrumentOldOrNew ==
    [][(IsRead /\ Recording) =>
          LET view == rendered'
          IN  /\ HistogramShown(view) \in {0, 1}
              /\ RequestShown(view) \in {0, 1}
              /\ TypeShown(view) \in {0, 1}
              /\ UpShown(view) \in {UpBefore, UpValue(call.op)}]_vars

(* A read in the middle of a record_success: the histogram count is *)
(* incremented, the success counter is not, the up gauge is still 0 *)
C33_Witness ==
    /\ call.op = "record_success" /\ call.pc = "counter" /\ WasRegistered
    /\ rendered = [counters |-> recorder.counters, gauges |-> recorder.gauges,
                   histograms |-> recorder.histograms]
    /\ HistogramShown(rendered) = 1 /\ RequestShown(rendered) = 0
    /\ UpShown(rendered) = 0

-----------------------------------------------------------------------------
(* Properties of the mutexes of the registry, checked under LockSpec *)

InCall(t) == threads[t].op # "idle"
Waits(t, mutex) == LocksNext(threads[t]) /\ MutexAt[threads[t].pc] = mutex

(* C31: concurrent register_monitor, record_success, record_failure calls   *)
(* and exposition reads do not deadlock: while a thread is in a call some   *)
(* thread in a call can take its next step; a thread that waits for a mutex *)
(* while it holds one holds monitor_metadata and waits for failure_counters,*)
(* never the other way round; and every call eventually returns.            *)
C31_NoDeadlock ==
    /\ []((\E t \in Threads : InCall(t)) =>
             \E u \in Threads : CanLock(u) \/ AtScopeEnd(u))
    /\ [](\A t \in Threads :
             (LocksNext(threads[t]) /\ Held(threads[t]) # {}) =>
                 /\ Held(threads[t]) = {"monitor_metadata"}
                 /\ Waits(t, "failure_counters"))
    /\ \A t \in Threads : InCall(t) ~> ~InCall(t)

(* t2 is inside the nested scope of record_failure with both mutexes    *)
(* while t1 is inside a lock scope of register_monitor; a reader has read *)
C31_Witness ==
    /\ threads["t2"].op = "record_failure" /\ threads["t2"].pc = "failure_type_nested"
    /\ Held(threads["t2"]) = {"monitor_metadata", "failure_counters"}
    /\ threads["t1"].op = "register_monitor" /\ Held(threads["t1"]) = {"request_counters"}
    /\ rendered # NothingRendered

(* What the recorder holds for a target, 0 for a series that does not exist *)
ObservationCount(id) ==
    LET hs == HistogramSeries(id, MetadataOf(MonitorOf(id)))
    IN  IF hs \in DOMAIN recorder.histograms THEN recorder.histograms[hs].count ELSE 0
RequestCount(id, status) ==
    CounterValue(recorder, RequestSeries(id, MetadataOf(MonitorOf(id)), status))
FailureTypeCount(id) == BagSum(recorder.counters, FailureTypeSeries(recorder, id))

(* C34: a record call that runs at the same time as register_monitor for   *)
(* the same target updates every instrument of the target or none: a       *)
(* failure-type counter is never incremented without the failure counter   *)
(* and the histogram, and once the calls have returned the histogram count *)
(* is the sum of the request counters and the failure counter the sum of   *)
(* the failure-type counters.                                              *)
C34_RecordAllOrNothing ==
    \A id \in LockIds :
        /\ FailureTypeCount(id) <= RequestCount(id, "failure")
        /\ FailureTypeCount(id) <= ObservationCount(id)
        /\ (\A t \in Threads : ~InCall(t)) =>
               /\ ObservationCount(id)
                      = RequestCount(id, "success") + RequestCount(id, "failure")
               /\ RequestCount(id, "failure") = FailureTypeCount(id)


-----------------------------------------------------------------------------
(* Frame conditions of the registry operations, checked under RegistrySpec *)

(* The instruments of the targets selected by Of have the values they had  *)
(* when the call began, and no such instrument was created or removed      *)
SameInstruments(Of(_)) ==
    \A kind \in {"counters", "gauges", "histograms"} :
        \A k \in DOMAIN recorder[kind] \cup DOMAIN pre.recorder[kind] :
            Of(k) =>
                /\ k \in DOMAIN recorder[kind] /\ k \in DOMAIN pre.recorder[kind]
                /\ recorder[kind][k] = pre.recorder[kind][k]

OfOtherTarget(k) == k.monitor_id # call.monitor_id
SuccessInstrument(k) ==
    /\ k.monitor_id = call.monitor_id
    /\ \/ k.metric = "http_monitor_requests_total" /\ k.status = "success"
       \/ k.metric = "http_monitor_last_success_timestamp"
FailureInstrument(k) ==
    /\ k.monitor_id = call.monitor_id
    /\ \/ k.metric = "http_monitor_requests_total" /\ k.status = "failure"
       \/ k.metric = "http_monitor_failures_total"

(* C35: record_failure leaves the success counter and the last-success     *)
(* timestamp of its target unchanged, record_success leaves the failure    *)
(* counter and every failure-type counter of its target unchanged, and     *)
(* register_monitor and both record operations leave every instrument of   *)
(* every other target unchanged.                                           *)
C35_FrameEffects ==
    (call.op # "idle") =>
        /\ SameInstruments(OfOtherTarget)
        /\ call.op = "record_failure" => SameInstruments(SuccessInstrument)
        /\ call.op = "record_success" => SameInstruments(FailureInstrument)

(* A failure of m1 has returned after a success of m1: the success counter *)
(* and the last-success timestamp of m1 are set                            *)
C35_Witness ==
    /\ CallDone("record_failure") /\ call.monitor_id = "m1" /\ WasRegistered
    /\ CounterValue(recorder, RequestSeries("m1", MetaBefore, "success")) = 1
    /\ CounterValue(recorder, RequestSeries("m1", MetaBefore, "failure")) = 1
    /\ recorder.gauges[LastSuccessSeries("m1", MetaBefore)] > 0


-----------------------------------------------------------------------------
(* Spacing of the requests of one target, checked under Spec *)

(* The interval of a monitor in ms, counted in minutes as the due check does *)
IntervalMs(m) == m.interval * SecondsPerMinute * MsPerSecond

(* This step sends the request of a probe of the target id that has been *)
(* probed before                                                          *)
SendsAgain(id) ==
    /\ pc = "check_monitor" /\ pc' = "record_metrics"
    /\ monitors_to_check[idx].id = id
    /\ IsSome(started_at[id])

PreviousStart(id) == UnwrapOr(started_at[id], 0)
PreviousStamp(id) == UnwrapOr(probed_at[id], 0)

(* C36: the requests of two consecutive probes of an enabled target start *)
(* at least its interval apart                                            *)
C36_RequestStartsIntervalApart ==
    [][\A m \in Enabled :
          SendsAgain(m.id) => clock - PreviousStart(m.id) >= IntervalMs(m)]_vars

(* C36 as amended: the cycle timestamps stored as last-run of two          *)
(* consecutive probes of an enabled target are at least its interval       *)
(* apart, and the requests start at least the interval apart less the time *)
(* the earlier request waited behind other targets in its cycle            *)
C36_CycleStampsIntervalApart ==
    [][\A m \in Enabled :
          SendsAgain(m.id) =>
              /\ now - PreviousStamp(m.id) >= IntervalMs(m)
              /\ clock - PreviousStart(m.id)
                     >= IntervalMs(m) - (PreviousStart(m.id) - PreviousStamp(m.id))]_vars

(* The second request of m2 was sent in the third cycle, 100 ms after the *)
(* cycle began (m1 answered at once), two minutes after its first cycle   *)
C36_Witness ==
    /\ cycle = 3 /\ now = 120000
    /\ probed_before["m2"] = Some(0)
    /\ started_at["m2"] = Some(120100)


-----------------------------------------------------------------------------
(* Bounds of the sleep between two cycles, checked under DriftSpec *)

(* This step is the sleep after a cycle *)
Sleeps == pc = "elapsed" /\ pc' = "loop"

-----------------------------------------------------------------------------
(* What the up gauge tells, checked under RegistrySpec *)

UpGauge(id) == recorder.gauges[UpSeries(id, registry.monitor_metadata[id])]

(* A record_success for id has set the up gauge and has yet to return *)
SuccessPastGauge(id) ==
    call.op = "record_success" /\ call.monitor_id = id /\ call.pc = "timestamp"

(* C38: the up gauge of a registered target is 1 only if the record call   *)
(* that completed last for it is a record_success; it is 0 for a           *)
(* registered target with no recorded outcome yet, as it is for a target   *)
(* whose last probe failed.                                                *)
C38_UpOnlyAfterCompletedSuccess ==
    \A id \in ClientIds :
        Registered(registry, id) =>
            /\ UpGauge(id) = 1 => completed[id] = "record_success"
            /\ completed[id] \notin RecordOps => UpGauge(id) = 0
            /\ completed[id] = "record_failure" => UpGauge(id) = 0

(* C38 as amended: the up gauge of a registered target is 1 only if the    *)
(* record call that completed last for it is a record_success or a         *)
(* record_success for it is in progress and has set the gauge; otherwise   *)
(* it is 0, for a target with no recorded outcome as for a target whose    *)
(* last probe failed.                                                      *)
C38_UpOnlyAfterSuccess ==
    \A id \in ClientIds :
        Registered(registry, id) =>
            /\ UpGauge(id) \in {0, 1}
            /\ UpGauge(id) = 1 =>
                   (completed[id] = "record_success" \/ SuccessPastGauge(id))
            /\ (completed[id] # "record_success" /\ ~SuccessPastGauge(id)) =>
                   UpGauge(id) = 0

(* m1 is registered and has a failed probe recorded, m2 is registered and *)
(* has no outcome recorded: both read 0                                   *)
C38_Witness ==
    /\ Registered(registry, "m1") /\ Registered(registry, "m2")
    /\ call.op = "idle"
    /\ completed["m1"] = "record_failure" /\ completed["m2"] = "none"
    /\ UpGauge("m1") = 0 /\ UpGauge("m2") = 0


-----------------------------------------------------------------------------
(* Start-up without prometheus_url, checked under MainSpec *)

(* C39: start-up with settings that omit prometheus_url does not fail:   *)
(* the step that builds the Prometheus client goes on to the join of the *)
(* two servers and the worker                                            *)
C39_StartsWithoutPrometheusUrl ==
    [][(pc = "prometheus_client" /\ loaded.is_ok /\ loaded.value.prometheus_url = None)
           => pc' = "main"]_vars


-----------------------------------------------------------------------------
(* The failure-type counter a record_failure call uses, checked under *)
(* RegistrySpec                                                        *)

(* C40: the failure-type counter that a record_failure call increments    *)
(* carries the error type and the status code of the call as its labels   *)
(* ("none" for no status code), so that two calls share a counter exactly *)
(* when they agree on both: the handle stored under the key of the call   *)
(* is the series with the labels of the call, and no failure-type counter *)
(* with other labels has changed.                                         *)
C40_FailureCounterMatchesCall ==
    (CallDone("record_failure") /\ WasRegistered) =>
        LET key == FailureKey(call.monitor_id, call.error_type, call.status_code)
        IN  /\ key \in DOMAIN registry.failure_counters
            /\ registry.failure_counters[key] = CallTypeSeries
            /\ \A k \in FailureTypeSeries(recorder, call.monitor_id) :
                   recorder.counters[k] # CounterValue(pre.recorder, k) => k = CallTypeSeries

=============================================================================
